---- MODULE Spec2Model ----
(***************************************************************************)
(* State-machine model of the OpenAI-compatible provider layer             *)
(* (providers/openai_compatible.py, providers/openai.py): provider         *)
(* construction, endpoint validation, parameter validation and             *)
(* generate_content with its bounded retry loop.                           *)
(*                                                                         *)
(* Python strings are TLA+ strings; str methods are computed character by  *)
(* character (SubSeq / Len / \o).  Python's None is the string None where  *)
(* a str is expected and the record NoneValue where an object is expected. *)
(* Temperatures are in tenths (7 is 0.7), timeouts in whole seconds.       *)
(***************************************************************************)
EXTENDS Integers, Sequences, FiniteSets, TLC

(***************************************************************************)
(* Python str primitives                                                   *)
(***************************************************************************)
None == "<None>"
NoneValue == [type |-> "NoneType"]

UpperAlphabet == "ABCDEFGHIJKLMNOPQRSTUVWXYZ"
LowerAlphabet == "abcdefghijklmnopqrstuvwxyz"
DigitChars == "0123456789"

CharAt(s, i) == SubSeq(s, i, i)

RECURSIVE FindFrom(_, _, _)
\* the first position >= i of s holding the character c, 0 when there is none
FindFrom(s, c, i) ==
    IF i > Len(s) THEN 0
    ELSE IF CharAt(s, i) = c THEN i
    ELSE FindFrom(s, c, i + 1)

\* s.find(c) for a one-character c, 1-based; 0 when c does not occur
IndexOf(s, c) == FindFrom(s, c, 1)

RECURSIVE FindBack(_, _, _)
FindBack(s, c, i) ==
    IF i < 1 THEN 0
    ELSE IF CharAt(s, i) = c THEN i
    ELSE FindBack(s, c, i - 1)

\* s.rfind(c) for a one-character c, 1-based; 0 when c does not occur
LastIndexOf(s, c) == FindBack(s, c, Len(s))

UpperChars == {CharAt(UpperAlphabet, i) : i \in 1..Len(UpperAlphabet)}
LowerChars == {CharAt(LowerAlphabet, i) : i \in 1..Len(LowerAlphabet)}
ToLowerMap == [c \in UpperChars |-> CharAt(LowerAlphabet, IndexOf(UpperAlphabet, c))]
ToUpperMap == [c \in LowerChars |-> CharAt(UpperAlphabet, IndexOf(LowerAlphabet, c))]

LowerChar(c) == IF c \in UpperChars THEN ToLowerMap[c] ELSE c

RECURSIVE Lower(_)
\* str.lower()
Lower(s) ==
    IF Len(s) = 0 THEN "" ELSE LowerChar(CharAt(s, 1)) \o Lower(SubSeq(s, 2, Len(s)))

\* Python's `term in s` for strings
Contains(s, term) ==
    \E i \in 1..(Len(s) - Len(term) + 1) : SubSeq(s, i, i + Len(term) - 1) = term

IsDigitChar(c) == IndexOf(DigitChars, c) # 0
IsAlphaChar(c) == c \in UpperChars \/ c \in LowerChars

\* str.isdigit() (False for the empty string)
IsDigits(s) == Len(s) > 0 /\ \A i \in 1..Len(s) : IsDigitChar(CharAt(s, i))

RECURSIVE StrToInt(_)
\* int(s) for a string of decimal digits
StrToInt(s) ==
    IF Len(s) = 0 THEN 0
    ELSE 10 * StrToInt(SubSeq(s, 1, Len(s) - 1)) + (IndexOf(DigitChars, CharAt(s, Len(s))) - 1)

RECURSIVE IntToStr(_)
\* str(n) for n >= 0
IntToStr(n) ==
    IF n < 10 THEN CharAt(DigitChars, n + 1)
    ELSE IntToStr(n \div 10) \o CharAt(DigitChars, (n % 10) + 1)

RECURSIVE Strip(_)
\* str.strip() for blanks
Strip(s) ==
    IF Len(s) = 0 THEN ""
    ELSE IF CharAt(s, 1) = " " THEN Strip(SubSeq(s, 2, Len(s)))
    ELSE IF CharAt(s, Len(s)) = " " THEN Strip(SubSeq(s, 1, Len(s) - 1))
    ELSE s

\* s[:i-1] for a position i found by IndexOf, all of s when i = 0
TextBefore(s, i) == IF i = 0 THEN s ELSE SubSeq(s, 1, i - 1)

\* s[i:] past a position i found by IndexOf, "" when i = 0
TextAfter(s, i) == IF i = 0 THEN "" ELSE SubSeq(s, i + 1, Len(s))

\* s.partition(c)[0] and s.partition(c)[2]
PartitionBefore(s, c) == TextBefore(s, IndexOf(s, c))
PartitionAfter(s, c) == TextAfter(s, IndexOf(s, c))

\* s.rpartition(c)[2]
RPartitionAfter(s, c) == SubSeq(s, LastIndexOf(s, c) + 1, Len(s))

RECURSIVE SplitOn(_, _)
\* s.split(c) as a sequence
SplitOn(s, c) ==
    IF IndexOf(s, c) = 0 THEN <<s>>
    ELSE <<PartitionBefore(s, c)>> \o SplitOn(PartitionAfter(s, c), c)

\* Python truthiness of an Optional[str]
Truthy(s) == s # None /\ s # ""

(***************************************************************************)
(* urllib.parse.urlparse, as far as _validate_base_url and                 *)
(* _is_localhost_url read it: .scheme, .hostname, .port                    *)
(***************************************************************************)
SchemeExtraChars == "+-."

IsSchemeChar(c) ==
    IsAlphaChar(c) \/ IsDigitChar(c) \/ IndexOf(SchemeExtraChars, c) # 0

\* the text before the ":" at position i is a scheme when it starts with a
\* letter and holds scheme characters only
SchemeEndsAt(url, i) ==
    /\ i > 1
    /\ IsAlphaChar(CharAt(url, 1))
    /\ \A j \in 1..(i - 1) : IsSchemeChar(CharAt(url, j))

HasScheme(url) == SchemeEndsAt(url, IndexOf(url, ":"))

\* parsed.scheme (lowercased by urlsplit)
UrlScheme(url) ==
    IF HasScheme(url) THEN Lower(PartitionBefore(url, ":")) ELSE ""

UrlAfterScheme(url) ==
    IF HasScheme(url) THEN PartitionAfter(url, ":") ELSE url

\* the netloc of "//netloc/path?query#fragment": it ends before the first of
\* "/", "?", "#"
NetlocUpTo(rest, stops) ==
    IF stops = {} THEN SubSeq(rest, 3, Len(rest))
    ELSE SubSeq(rest, 3, (CHOOSE i \in stops : \A j \in stops : i <= j) - 1)

NetlocOf(rest) ==
    IF Len(rest) >= 2 /\ SubSeq(rest, 1, 2) = "//"
    THEN NetlocUpTo(rest, {i \in 3..Len(rest) : CharAt(rest, i) \in {"/", "?", "#"}})
    ELSE ""

\* parsed.netloc
UrlNetloc(url) == NetlocOf(UrlAfterScheme(url))

\* netloc.rpartition("@")[2]
UrlHostInfo(url) == RPartitionAfter(UrlNetloc(url), "@")

\* "[host]:port" after its "["
BracketedPair(bracketed) ==
    <<PartitionBefore(bracketed, "]"), PartitionAfter(PartitionAfter(bracketed, "]"), ":")>>

HostInfoSplit(hostinfo) ==
    IF IndexOf(hostinfo, "[") # 0
    THEN BracketedPair(PartitionAfter(hostinfo, "["))
    ELSE <<PartitionBefore(hostinfo, ":"), PartitionAfter(hostinfo, ":")>>

EmptyPortIsNone(pair) == <<pair[1], IF pair[2] = "" THEN None ELSE pair[2]>>

\* _hostinfo: <<hostname text, port text>>; the port text is None when empty
HostInfoPair(url) == EmptyPortIsNone(HostInfoSplit(UrlHostInfo(url)))

HostnameOf(host) == IF host = "" THEN None ELSE Lower(host)

\* parsed.hostname: None when empty, else lowercased
UrlHostname(url) == HostnameOf(HostInfoPair(url)[1])

MaxPort == 65535

PortTextRaises(port) ==
    /\ port # None
    /\ \/ ~IsDigits(port)
       \/ StrToInt(port) > MaxPort

\* reading parsed.port raises ValueError for a port that is not a number or is
\* above 65535
UrlPortRaises(url) == PortTextRaises(HostInfoPair(url)[2])

UrlPortIsNone(url) == HostInfoPair(url)[2] = None

\* parsed.port where it is a number
UrlPort(url) == StrToInt(HostInfoPair(url)[2])

(***************************************************************************)
(* ipaddress.ip_address for IPv4 dotted quads, and is_private/is_loopback  *)
(***************************************************************************)
IsOctet(t) ==
    /\ IsDigits(t)
    /\ Len(t) <= 3
    /\ (Len(t) > 1 => CharAt(t, 1) # "0")
    /\ StrToInt(t) <= 255

IsQuad(parts) == Len(parts) = 4 /\ \A i \in 1..4 : IsOctet(parts[i])

\* ip_address(hostname) does not raise ValueError
IsIPv4(host) == IsQuad(SplitOn(host, "."))

QuadValues(parts) == [i \in 1..4 |-> StrToInt(parts[i])]

Octets(host) == QuadValues(SplitOn(host, "."))

\* IPv4Address.is_loopback: 127.0.0.0/8
IpIsLoopback(host) == Octets(host)[1] = 127

\* the address lies in one of the private networks
OctetsPrivate(o) ==
    \/ o[1] \in {0, 10, 127}
    \/ o[1] = 169 /\ o[2] = 254
    \/ o[1] = 172 /\ o[2] \in 16..31
    \/ o[1] = 192 /\ o[2] = 0 /\ o[3] = 0 /\ (o[4] \in 0..7 \/ o[4] \in 170..171)
    \/ o[1] = 192 /\ o[2] = 0 /\ o[3] = 2
    \/ o[1] = 192 /\ o[2] = 168
    \/ o[1] = 198 /\ o[2] \in 18..19
    \/ o[1] = 198 /\ o[2] = 51 /\ o[3] = 100
    \/ o[1] = 203 /\ o[2] = 0 /\ o[3] = 113
    \/ o[1] \in 240..255

\* IPv4Address.is_private
IpIsPrivate(host) == OctetsPrivate(Octets(host))

(***************************************************************************)
(* ipaddress.ip_address for IPv6 text of hexadecimal groups with at most   *)
(* one "::" (no embedded dotted quad, no zone id), and its is_private /    *)
(* is_loopback                                                             *)
(***************************************************************************)
HexChars == "0123456789abcdef"

IsHextet(t) ==
    /\ Len(t) \in 1..4
    /\ \A i \in 1..Len(t) : IndexOf(HexChars, CharAt(t, i)) # 0

RECURSIVE HexToInt(_)
HexToInt(t) ==
    IF Len(t) = 0 THEN 0
    ELSE HexToInt(SubSeq(t, 1, Len(t) - 1)) * 16 + (IndexOf(HexChars, CharAt(t, Len(t))) - 1)

\* positions of the empty group that "::" leaves inside the split text
V6Gap(parts) == {i \in 2..(Len(parts) - 1) : parts[i] = ""}

V6HiFirst(parts) == IF parts[1] = "" THEN 2 ELSE 1
V6LoLast(parts) == IF parts[Len(parts)] = "" THEN Len(parts) - 1 ELSE Len(parts)

\* the groups around a "::" at position k are well formed
V6Compressed(parts, k) ==
    /\ parts[1] = "" => k = 2
    /\ parts[Len(parts)] = "" => k = Len(parts) - 1
    /\ (k - V6HiFirst(parts)) + (V6LoLast(parts) - k) <= 7
    /\ \A i \in (V6HiFirst(parts)..(k - 1)) \cup ((k + 1)..V6LoLast(parts)) :
          IsHextet(parts[i])

V6Full(parts) == Len(parts) = 8 /\ \A i \in 1..8 : IsHextet(parts[i])

IsV6Parts(parts) ==
    /\ Len(parts) \in 3..9
    /\ IF V6Gap(parts) = {} THEN V6Full(parts)
       ELSE /\ Cardinality(V6Gap(parts)) = 1
            /\ V6Compressed(parts, CHOOSE k \in V6Gap(parts) : TRUE)

\* ip_address(hostname) returns an IPv6Address
IsIPv6(host) == IsV6Parts(SplitOn(host, ":"))

\* the eight 16-bit groups, the "::" at position k filled with zeros
V6Expand(parts, k) ==
    [i \in 1..8 |->
        IF i <= k - V6HiFirst(parts) THEN HexToInt(parts[V6HiFirst(parts) + i - 1])
        ELSE IF i > 8 - (V6LoLast(parts) - k) THEN HexToInt(parts[V6LoLast(parts) - (8 - i)])
        ELSE 0]

V6Groups(parts) ==
    IF V6Gap(parts) = {} THEN [i \in 1..8 |-> HexToInt(parts[i])]
    ELSE V6Expand(parts, CHOOSE k \in V6Gap(parts) : TRUE)

Hextets(host) == V6Groups(SplitOn(host, ":"))

\* IPv6Address.is_loopback: the address is ::1
V6IsLoopback(h) == (\A i \in 1..7 : h[i] = 0) /\ h[8] = 1

\* IPv6Address.ipv4_mapped is not None: the address is in ::ffff:0:0/96
V6IsMapped(h) == (\A i \in 1..5 : h[i] = 0) /\ h[6] = 65535

V6MappedOctets(h) == <<h[7] \div 256, h[7] % 256, h[8] \div 256, h[8] % 256>>

\* IPv6Address.is_private
V6IsPrivate(h) ==
    IF V6IsMapped(h) THEN OctetsPrivate(V6MappedOctets(h))
    ELSE \/ (\A i \in 1..7 : h[i] = 0) /\ h[8] \in {0, 1}
         \/ h[1] = 256 /\ h[2] = 0 /\ h[3] = 0 /\ h[4] = 0
         \/ h[1] = 8193 /\ h[2] < 512
         \/ h[1] = 8193 /\ h[2] = 3512
         \/ h[1] \in 64512..65023
         \/ h[1] \in 65152..65215

\* ip.is_private or ip.is_loopback of ip_address(hostname)
IpIsLocal(host) ==
    IF IsIPv4(host) THEN IpIsPrivate(host) \/ IpIsLoopback(host)
    ELSE V6IsPrivate(Hextets(host)) \/ V6IsLoopback(Hextets(host))

\* ip_address(hostname) does not raise ValueError
IsIpAddress(host) == IsIPv4(host) \/ IsIPv6(host)

(***************************************************************************)
(* urlsplit raises ValueError for unbalanced or ill-formed "[...]"          *)
(***************************************************************************)
\* the text after "v" matches [a-fA-F0-9]+\..+
IsIPvFutureTail(t) ==
    /\ IndexOf(t, ".") > 1
    /\ IsHextet(Lower(SubSeq(t, 1, 1)))
    /\ \A i \in 1..(IndexOf(t, ".") - 1) : IndexOf(HexChars, Lower(CharAt(t, i))) # 0
    /\ IndexOf(t, ".") < Len(t)

\* _check_bracketed_host raises
BracketedHostRaises(h) ==
    IF Len(h) > 0 /\ CharAt(h, 1) = "v" THEN ~IsIPvFutureTail(SubSeq(h, 2, Len(h)))
    ELSE ~IsIPv6(Lower(h))

NetlocRaises(netloc) ==
    IF IndexOf(netloc, "[") # 0 /\ IndexOf(netloc, "]") # 0
    THEN BracketedHostRaises(PartitionBefore(PartitionAfter(netloc, "["), "]"))
    ELSE IndexOf(netloc, "[") # 0 \/ IndexOf(netloc, "]") # 0

\* urlparse(url) raises ValueError
UrlParseRaises(url) == NetlocRaises(UrlNetloc(url))

(***************************************************************************)
(* OpenAICompatibleProvider: endpoint classification and validation        *)
(***************************************************************************)
LocalHostnames == {"localhost", "127.0.0.1", "::1"}

\* lines 150-167 of _is_localhost_url, for the parsed hostname
HostnameIsLocal(hostname) ==
    IF hostname \in LocalHostnames THEN TRUE
    ELSE IF hostname # None
            /\ (Contains(hostname, "docker.internal")
                \/ Contains(hostname, "host.docker.internal"))
         THEN TRUE
    ELSE IF hostname # None /\ IsIpAddress(hostname)
         THEN IpIsLocal(hostname)
    ELSE FALSE

\* _is_localhost_url
IsLocalhostUrl(url) ==
    IF ~Truthy(url) THEN FALSE
    ELSE IF UrlParseRaises(url) THEN FALSE
    ELSE HostnameIsLocal(UrlHostname(url))

NoError == [type |-> "NoError"]

\* _validate_base_url without its port check
ValidateBaseUrlNoPortCheck(url) ==
    IF ~Truthy(url) THEN NoError
    ELSE IF UrlParseRaises(url)
         THEN [type |-> "ValueError", message |-> "Invalid IPv6 URL"]
    ELSE IF UrlScheme(url) \notin {"http", "https"}
         THEN [type |-> "ValueError", message |-> "Invalid URL scheme"]
    ELSE IF UrlHostname(url) = None
         THEN [type |-> "ValueError", message |-> "URL must include a hostname"]
    ELSE NoError

\* _validate_base_url: the exception it raises, NoError when it returns
ValidateBaseUrl(url) ==
    IF ~Truthy(url) THEN NoError
    ELSE IF UrlParseRaises(url)
         THEN [type |-> "ValueError", message |-> "Invalid IPv6 URL"]
    ELSE IF UrlScheme(url) \notin {"http", "https"}
         THEN [type |-> "ValueError", message |-> "Invalid URL scheme"]
    ELSE IF UrlHostname(url) = None
         THEN [type |-> "ValueError", message |-> "URL must include a hostname"]
    ELSE IF UrlPortRaises(url)
         THEN [type |-> "ValueError",
               message |-> IF IsDigits(HostInfoPair(url)[2])
                           THEN "Port out of range 0-65535"
                           ELSE "Port could not be cast to integer value"]
    ELSE IF ~UrlPortIsNone(url) /\ (UrlPort(url) < 1 \/ UrlPort(url) > MaxPort)
         THEN [type |-> "ValueError", message |-> "Invalid port number"]
    ELSE NoError

(***************************************************************************)
(* Provider classes.  "openai" is OpenAIModelProvider (providers/openai.py);*)
(* "custom" is a generic subclass of OpenAICompatibleProvider that accepts *)
(* every model name its allow-list permits.                                *)
(***************************************************************************)
ProviderKinds == {"openai", "custom"}

\* FRIENDLY_NAME: the class attribute, which OpenAIModelProvider inherits
FRIENDLY_NAME == "OpenAI Compatible"

\* get_provider_type().value
ProviderTypeValue(k) == k

\* OpenAIModelProvider.SUPPORTED_MODELS
SUPPORTED_MODELS ==
    [m \in {"o3", "o4-mini"} |->
        [context_window |-> 200000, supports_extended_thinking |-> FALSE]]

OPENAI_DEFAULT_BASE_URL == "https://api.openai.com/v1"

RECURSIVE Upper(_)
UpperChar(c) == IF c \in LowerChars THEN ToUpperMap[c] ELSE c

\* str.upper()
Upper(s) ==
    IF Len(s) = 0 THEN "" ELSE UpperChar(CharAt(s, 1)) \o Upper(SubSeq(s, 2, Len(s)))

(***************************************************************************)
(* Process environment: os.getenv                                          *)
(***************************************************************************)
EnvNames ==
    {"OPENAI_ALLOWED_MODELS", "CUSTOM_ALLOWED_MODELS", "CUSTOM_CONNECT_TIMEOUT",
     "CUSTOM_READ_TIMEOUT", "CUSTOM_WRITE_TIMEOUT", "CUSTOM_POOL_TIMEOUT"}

EmptyEnv == [n \in EnvNames |-> None]

\* os.getenv(name, default)
GetEnv(env, name, default) ==
    IF name \in DOMAIN env /\ env[name] # None THEN env[name] ELSE default

\* Optional[set[str]]
NoAllowList == [is_none |-> TRUE, models |-> {}]

\* {m.strip().lower() for m in models_str.split(",") if m.strip()}
NormalizedModels(pieces) ==
    {Lower(Strip(pieces[i])) : i \in {j \in 1..Len(pieces) : Strip(pieces[j]) # ""}}

AllowListOf(models) ==
    IF models # {} THEN [is_none |-> FALSE, models |-> models] ELSE NoAllowList

ParseModelsStr(models_str) ==
    IF models_str # "" THEN AllowListOf(NormalizedModels(SplitOn(models_str, ",")))
    ELSE NoAllowList

\* _parse_allowed_models
ParseAllowedModels(k, env) ==
    ParseModelsStr(GetEnv(env, Upper(ProviderTypeValue(k)) \o "_ALLOWED_MODELS", ""))

(***************************************************************************)
(* _configure_timeouts                                                     *)
(***************************************************************************)
\* float(text) raises ValueError
FloatRaises(text) == ~IsDigits(Strip(text))

\* float(text), for text holding a whole number of seconds
FloatOf(text) == StrToInt(Strip(text))

\* tier defaults without the local tier
TierDefaultsNoLocalTier(url) ==
    IF Truthy(url) THEN <<45, 900, 900, 900>> ELSE <<30, 600, 600, 600>>

\* the tier defaults: <<connect, read, write, pool>>
TierDefaults(url) ==
    IF Truthy(url) /\ IsLocalhostUrl(url) THEN <<60, 1800, 1800, 1800>>
    ELSE IF Truthy(url) THEN <<45, 900, 900, 900>>
    ELSE <<30, 600, 600, 600>>

TimeoutKeys == <<"connect", "read", "write", "pool">>
TimeoutEnvNames ==
    <<"CUSTOM_CONNECT_TIMEOUT", "CUSTOM_READ_TIMEOUT", "CUSTOM_WRITE_TIMEOUT",
      "CUSTOM_POOL_TIMEOUT">>

\* keyword arguments never passed
Absent == "<absent>"
AbsentTimeout == -1

\* float(os.getenv(...)) is evaluated for every timeout, also when the keyword
\* argument is given: a malformed value raises ValueError
ConfigureTimeoutsRaises(url, kw, env) ==
    \E i \in 1..4 : TimeoutEnvNames[i] \in DOMAIN env
                    /\ env[TimeoutEnvNames[i]] # None
                    /\ FloatRaises(env[TimeoutEnvNames[i]])

\* _configure_timeouts with the configuration value ahead of the keyword argument
ConfigureTimeoutsEnvFirst(url, kw, env) ==
    [i \in 1..4 |->
        IF env[TimeoutEnvNames[i]] # None THEN FloatOf(env[TimeoutEnvNames[i]])
        ELSE IF kw[i] # AbsentTimeout THEN kw[i]
        ELSE TierDefaults(url)[i]]

\* the httpx.Timeout returned by _configure_timeouts
ConfigureTimeouts(url, kw, env) ==
    [i \in 1..4 |->
        IF kw[i] # AbsentTimeout THEN kw[i]
        ELSE IF env[TimeoutEnvNames[i]] # None THEN FloatOf(env[TimeoutEnvNames[i]])
        ELSE TierDefaults(url)[i]]

NoTimeoutKwargs == <<AbsentTimeout, AbsentTimeout, AbsentTimeout, AbsentTimeout>>
NoTimeoutConfig == <<0, 0, 0, 0>>

(***************************************************************************)
(* Capabilities and parameter validation                                   *)
(***************************************************************************)
FixedTemperatureConstraint(v) == [tag |-> "Fixed", value |-> v]
RangeTemperatureConstraint(lo, hi, d) == [tag |-> "Range", min |-> lo, max |-> hi, default |-> d]

\* TemperatureConstraint.validate
Accepts(c, t) ==
    IF c.tag = "Fixed" THEN t = c.value ELSE c.min <= t /\ t <= c.max

\* OpenAIModelProvider.get_capabilities: the descriptor, or the ValueError raised
OpenAIGetCapabilities(model_name) ==
    IF model_name \notin DOMAIN SUPPORTED_MODELS
    THEN [type |-> "ValueError", message |-> "Unsupported OpenAI model: " \o model_name]
    ELSE [type |-> "ModelCapabilities",
          provider |-> "openai",
          model_name |-> model_name,
          friendly_name |-> "OpenAI",
          context_window |-> SUPPORTED_MODELS[model_name].context_window,
          supports_extended_thinking |-> SUPPORTED_MODELS[model_name].supports_extended_thinking,
          supports_system_prompts |-> TRUE,
          supports_streaming |-> TRUE,
          supports_function_calling |-> TRUE,
          temperature_constraint |->
              IF model_name \in {"o3", "o4-mini"}
              THEN FixedTemperatureConstraint(10)
              ELSE RangeTemperatureConstraint(0, 20, 7)]

\* the generic descriptor of a proxy provider
CustomGetCapabilities(model_name) ==
    [type |-> "ModelCapabilities",
     provider |-> "custom",
     model_name |-> model_name,
     friendly_name |-> "Custom API",
     context_window |-> 32768,
     supports_extended_thinking |-> FALSE,
     supports_system_prompts |-> TRUE,
     supports_streaming |-> TRUE,
     supports_function_calling |-> FALSE,
     temperature_constraint |-> RangeTemperatureConstraint(0, 20, 7)]

\* get_capabilities, dispatched on the provider class
GetCapabilities(k, model_name) ==
    IF k = "openai" THEN OpenAIGetCapabilities(model_name)
    ELSE CustomGetCapabilities(model_name)

\* validate_model_name that ignores the case of the name
OpenAIValidateModelNameAnyCase(model_name, allowed) ==
    Lower(model_name) \in DOMAIN SUPPORTED_MODELS

\* OpenAIModelProvider.validate_model_name
OpenAIValidateModelName(model_name, allowed) == model_name \in DOMAIN SUPPORTED_MODELS

\* validate_model_name of the generic provider: the allow-list alone decides
CustomValidateModelName(model_name, allowed) ==
    allowed.is_none \/ Lower(model_name) \in allowed.models

ValidateModelName(k, model_name, allowed) ==
    IF k = "openai" THEN OpenAIValidateModelName(model_name, allowed)
    ELSE CustomValidateModelName(model_name, allowed)

\* ModelProvider.validate_parameters (the parent class method): the ValueError
\* it raises for a temperature the constraint rejects, NoError otherwise
BaseValidateParameters(caps, temperature) ==
    IF Accepts(caps.temperature_constraint, temperature) THEN NoError
    ELSE [type |-> "ValueError", message |-> "Temperature out of range"]

\* what the try block of OpenAICompatibleProvider.validate_parameters raises
ValidateParametersTry(k, model_name, temperature) ==
    LET capabilities == GetCapabilities(k, model_name)
    IN  IF capabilities.type = "ValueError" THEN capabilities
        ELSE BaseValidateParameters(capabilities, temperature)

\* OpenAICompatibleProvider.validate_parameters: every exception of the try
\* block is caught and logged as a warning; nothing is raised
ValidateParameters(k, model_name, temperature) ==
    [raised |-> NoError,
     warned |-> ValidateParametersTry(k, model_name, temperature) # NoError]

(***************************************************************************)
(* State                                                                   *)
(***************************************************************************)
VARIABLES
    environ,          \* os.environ
    phase,            \* "new", "ready" (constructed) or "failed" (__init__ raised)
    kind,             \* the provider class constructed
    api_key,          \* self.api_key
    base_url,         \* self.base_url
    allowed_models,   \* self.allowed_models
    timeout_config,   \* self.timeout_config
    client,           \* self._client
    init_error,       \* the exception __init__ raised
    warnings,         \* what logging.warning recorded
    op,               \* the provider method being called
    pc,               \* position of the call in progress
    req,              \* its arguments
    protocol,         \* "chat" or "responses"
    attempt,          \* the loop variable of the retry loop
    last_exception,   \* last_exception
    is_retryable,     \* is_retryable, as last computed by the except block
    response,         \* the response the last request returned
    delay,            \* the delay being slept
    outcome,          \* what the finished call returned or raised
    trace,            \* history of the call: requests sent, their ends, sleeps
    callers,          \* threads reading provider.client: position, locals, result
    locals            \* local variables of a tool's prepare_prompt while it runs

providerVars == <<phase, kind, api_key, base_url, allowed_models, timeout_config,
                  init_error>>
callVars == <<op, pc, req, protocol, attempt, last_exception, is_retryable, response,
              delay, outcome, trace>>
vars == <<environ, phase, kind, api_key, base_url, allowed_models, timeout_config,
          client, init_error, warnings, op, pc, req, protocol, attempt, last_exception,
          is_retryable, response, delay, outcome, trace, callers, locals>>

\* threads that may read provider.client at the same time
MaxCallers == 3
Callers == 1..MaxCallers

NoCallers == [t \in Callers |-> [pc |-> "idle", built |-> NoneValue, got |-> NoneValue]]

NoRequest == [model_name |-> None, temperature |-> 0]

NoLocals == [type |-> "NoneType"]

InitWith(envs) ==
    /\ environ \in envs
    /\ phase = "new"
    /\ kind = None
    /\ api_key = None
    /\ base_url = None
    /\ allowed_models = NoAllowList
    /\ timeout_config = NoTimeoutConfig
    /\ client = NoneValue
    /\ init_error = NoError
    /\ warnings = {}
    /\ op = None
    /\ pc = "idle"
    /\ req = NoRequest
    /\ protocol = None
    /\ attempt = 0
    /\ last_exception = NoneValue
    /\ is_retryable = FALSE
    /\ response = NoneValue
    /\ delay = 0
    /\ outcome = NoneValue
    /\ trace = <<>>
    /\ callers = NoCallers
    /\ locals = NoLocals

(***************************************************************************)
(* Construction: OpenAIModelProvider.__init__ and                          *)
(* OpenAICompatibleProvider.__init__                                       *)
(***************************************************************************)
\* the base_url that reaches OpenAICompatibleProvider.__init__: the OpenAI
\* provider fills in its default when the caller passed none
EffectiveBaseUrl(k, url_arg) ==
    IF url_arg = Absent
    THEN (IF k = "openai" THEN OPENAI_DEFAULT_BASE_URL ELSE None)
    ELSE url_arg

\* the exception __init__ raises, NoError when construction succeeds;
\* _configure_timeouts runs before _validate_base_url
InitError(url, kw, env) ==
    IF ConfigureTimeoutsRaises(url, kw, env)
    THEN [type |-> "ValueError", message |-> "could not convert string to float"]
    ELSE ValidateBaseUrl(url)

Construct(k, key, url_arg, kw) ==
    LET url == EffectiveBaseUrl(k, url_arg)
        err == InitError(url, kw, environ)
    IN  /\ phase = "new"
        /\ kind' = k
        /\ api_key' = key
        /\ client' = NoneValue
        /\ base_url' = url
        /\ allowed_models' = ParseAllowedModels(k, environ)
        /\ timeout_config' =
              IF ConfigureTimeoutsRaises(url, kw, environ) THEN NoTimeoutConfig
              ELSE ConfigureTimeouts(url, kw, environ)
        /\ init_error' = err
        /\ phase' = IF err = NoError THEN "ready" ELSE "failed"
        /\ warnings' =
              IF err = NoError /\ Truthy(url) /\ ~IsLocalhostUrl(url) /\ key = ""
              THEN warnings \cup {"external URL without API key"}
              ELSE warnings
        /\ UNCHANGED <<locals, environ, callers, callVars>>

\* OpenAI(**client_kwargs) as evaluated by caller t (0: the only caller);
\* every evaluation makes a new object
ClientBuiltBy(t) ==
    [type |-> "OpenAI", api_key |-> api_key,
     base_url |-> IF Truthy(base_url) THEN base_url ELSE Absent,
     timeout |-> timeout_config,
     instance |-> t]

\* the client property: built on first access, memoized
NewClient == ClientBuiltBy(0)

ClientProperty == IF client = NoneValue THEN NewClient ELSE client

\* the client property deriving the timeouts again when it builds the client
AccessClientReconfigures ==
    /\ phase = "ready"
    /\ pc = "idle"
    /\ client = NoneValue
    /\ timeout_config' = ConfigureTimeouts(base_url, NoTimeoutKwargs, environ)
    /\ client' = [ClientProperty EXCEPT !.timeout = timeout_config']
    /\ UNCHANGED <<locals, environ, callers, phase, kind, api_key, base_url, allowed_models,
                   init_error, warnings, callVars>>

\* a caller reads provider.client
AccessClient ==
    /\ phase = "ready"
    /\ pc = "idle"
    /\ client = NoneValue
    /\ client' = ClientProperty
    /\ UNCHANGED <<locals, environ, callers, providerVars, warnings, callVars>>

(***************************************************************************)
(* The client property read by several threads.  The property takes no     *)
(* lock, so its statements interleave: the test of line 203, the           *)
(* construction and the assignment of line 223, the read of line 225.      *)
(***************************************************************************)
CallerAt(t, where) == phase = "ready" /\ pc = "idle" /\ callers[t].pc = where

\* caller t starts reading provider.client
CallerEnters(t) ==
    /\ phase = "ready" /\ pc = "idle"
    /\ callers[t].pc \in {"idle", "done"}
    /\ callers' = [callers EXCEPT ![t].pc = "test"]
    /\ UNCHANGED <<locals, environ, providerVars, client, warnings, callVars>>

\* line 203: if self._client is None
CallerTests(t) ==
    /\ CallerAt(t, "test")
    /\ callers' = [callers EXCEPT ![t].pc = IF client = NoneValue THEN "build" ELSE "read"]
    /\ UNCHANGED <<locals, environ, providerVars, client, warnings, callVars>>

\* lines 204-223, right-hand side: OpenAI(**client_kwargs)
CallerBuilds(t) ==
    /\ CallerAt(t, "build")
    /\ callers' = [callers EXCEPT ![t].pc = "assign", ![t].built = ClientBuiltBy(t)]
    /\ UNCHANGED <<locals, environ, providerVars, client, warnings, callVars>>

\* line 223: self._client = ...
CallerAssigns(t) ==
    /\ CallerAt(t, "assign")
    /\ client' = callers[t].built
    /\ callers' = [callers EXCEPT ![t].pc = "read"]
    /\ UNCHANGED <<locals, environ, providerVars, warnings, callVars>>

\* line 225: return self._client
CallerReturns(t) ==
    /\ CallerAt(t, "read")
    /\ callers' = [callers EXCEPT ![t].pc = "done", ![t].got = client]
    /\ UNCHANGED <<locals, environ, providerVars, client, warnings, callVars>>

(***************************************************************************)
(* generate_content: retry policy and result construction                  *)
(***************************************************************************)
max_retries == 4

\* delays that double
RetryDelaysDoubling == <<1, 2, 4, 8>>

retry_delays == <<1, 3, 5, 8>>

RetryableTerms ==
    <<"timeout", "connection", "network", "temporary", "unavailable", "retry",
      "429", "500", "502", "503", "504">>

\* any(term in error_str for term in terms)
AnyTermIn(error_str, terms) ==
    \E i \in 1..Len(terms) : Contains(error_str, terms[i])

\* is_retryable without lowercasing the message
IsRetryableCaseSensitive(e) == AnyTermIn(e.message, RetryableTerms)

\* is_retryable of the chat loop with the status codes alone
IsRetryableStatusOnly(e) ==
    AnyTermIn(Lower(e.message), <<"429", "500", "502", "503", "504">>)

\* is_retryable of the chat loop
IsRetryable(e) == AnyTermIn(Lower(e.message), RetryableTerms)

\* the retry loop of _generate_with_responses_endpoint
responses_max_retries == 4
responses_retry_delays == <<1, 3, 5, 8>>

ResponsesRetryableTerms ==
    <<"timeout", "connection", "network", "temporary", "unavailable", "retry",
      "429", "500", "502", "503", "504">>

\* is_retryable of the responses loop
ResponsesIsRetryable(e) == AnyTermIn(Lower(e.message), ResponsesRetryableTerms)

\* getattr(obj, name, default)
GetAttr(obj, name, default) == IF name \in DOMAIN obj THEN obj[name] ELSE default

EmptyDict == <<>>

\* _extract_usage
ExtractUsage(resp) ==
    IF "usage" \in DOMAIN resp /\ resp.usage # NoneValue
    THEN [input_tokens |-> GetAttr(resp.usage, "prompt_tokens", 0),
          output_tokens |-> GetAttr(resp.usage, "completion_tokens", 0),
          total_tokens |-> GetAttr(resp.usage, "total_tokens", 0)]
    ELSE EmptyDict

\* the exception reading an attribute of the reply object raises, NoError if none
ReadError(resp) == IF "read_error" \in DOMAIN resp THEN resp.read_error ELSE NoError

\* the exception raised while the chat loop reads the resp, NoError if none
ChatExtractError(resp) ==
    IF ReadError(resp) # NoError THEN ReadError(resp)
    ELSE IF Len(resp.choices) = 0
    THEN [type |-> "IndexError", message |-> "list index out of range"]
    ELSE NoError

\* the first item of type output_text, 0 if there is none
FirstOutputText(items) ==
    IF \E i \in 1..Len(items) : "type" \in DOMAIN items[i] /\ items[i].type = "output_text"
    THEN CHOOSE i \in 1..Len(items) :
            /\ "type" \in DOMAIN items[i] /\ items[i].type = "output_text"
            /\ \A j \in 1..(i - 1) :
                  ~("type" \in DOMAIN items[j] /\ items[j].type = "output_text")
    ELSE 0

ItemTextMissing(items, i) == i # 0 /\ "text" \notin DOMAIN items[i]

\* the exception raised while the responses loop reads the resp, NoError if none:
\* content_item.text of line 294 is read without hasattr
ResponsesExtractError(resp) ==
    IF ReadError(resp) # NoError THEN ReadError(resp)
    ELSE IF /\ "output" \in DOMAIN resp /\ resp.output # NoneValue
            /\ "content" \in DOMAIN resp.output /\ resp.output.content # <<>>
            /\ ItemTextMissing(resp.output.content, FirstOutputText(resp.output.content))
    THEN [type |-> "AttributeError", message |-> "object has no attribute 'text'"]
    ELSE NoError

\* the ModelResponse the chat loop returns
ChatModelResponse(model_name, k, resp) ==
    [type |-> "ModelResponse",
     content |-> resp.choices[1].content,
     usage |-> ExtractUsage(resp),
     model_name |-> model_name,
     friendly_name |-> FRIENDLY_NAME,
     provider |-> ProviderTypeValue(k),
     metadata |-> [finish_reason |-> resp.choices[1].finish_reason,
                   model |-> resp.model,
                   id |-> resp.id,
                   created |-> resp.created]]

\* content extraction of the responses endpoint
ResponsesContent(resp) ==
    IF "output" \in DOMAIN resp /\ resp.output # NoneValue
    THEN (IF "content" \in DOMAIN resp.output /\ resp.output.content # <<>>
          THEN LET items == resp.output.content
                   hits == {i \in 1..Len(items) :
                               "type" \in DOMAIN items[i] /\ items[i].type = "output_text"}
               IN  IF hits = {} THEN ""
                   ELSE items[CHOOSE i \in hits : \A j \in hits : i <= j].text
          ELSE IF "text" \in DOMAIN resp.output THEN resp.output.text
          ELSE "")
    ELSE ""

\* usage extraction of the responses endpoint (None when there is none)
ResponsesUsage(resp) ==
    IF "usage" \in DOMAIN resp THEN ExtractUsage(resp)
    ELSE IF "input_tokens" \in DOMAIN resp /\ "output_tokens" \in DOMAIN resp
    THEN [input_tokens |-> resp.input_tokens,
          output_tokens |-> resp.output_tokens,
          total_tokens |-> resp.input_tokens + resp.output_tokens]
    ELSE NoneValue

\* the ModelResponse _generate_with_responses_endpoint returns
ResponsesModelResponse(model_name, k, resp) ==
    [type |-> "ModelResponse",
     content |-> ResponsesContent(resp),
     usage |-> ResponsesUsage(resp),
     model_name |-> model_name,
     friendly_name |-> FRIENDLY_NAME,
     provider |-> ProviderTypeValue(k),
     metadata |-> [model |-> GetAttr(resp, "model", model_name),
                   id |-> GetAttr(resp, "id", ""),
                   created |-> GetAttr(resp, "created_at", 0),
                   endpoint |-> "responses"]]

\* the RuntimeError of the chat loop with the number of attempts made
ChatFailureCountsAttempts(model_name, last) ==
    [type |-> "RuntimeError",
     message |-> FRIENDLY_NAME \o " API error for model " \o model_name \o " after "
                 \o IntToStr(attempt + 1) \o " attempts: " \o last.message,
     cause |-> last]

\* the RuntimeError raised when the chat loop gives up
ChatFailure(model_name, last) ==
    [type |-> "RuntimeError",
     message |-> FRIENDLY_NAME \o " API error for model " \o model_name \o " after "
                 \o IntToStr(max_retries) \o " attempts: " \o last.message,
     cause |-> last]

\* the RuntimeError raised when the responses loop gives up
ResponsesFailure(model_name, last) ==
    [type |-> "RuntimeError",
     message |-> "o3-pro responses endpoint error after "
                 \o IntToStr(responses_max_retries) \o " attempts: " \o last.message,
     cause |-> last]

\* the ValueError generate_content raises for a model validate_model_name rejects
ModelNotAllowed(model_name) ==
    [type |-> "ValueError",
     message |-> "Model '" \o model_name \o "' not in allowed models list.",
     cause |-> NoneValue]

RESPONSES_MODEL == "o3-pro-2025-06-10"

(***************************************************************************)
(* generate_content as a sequence of steps: validation and request         *)
(* assembly, then per attempt the request, its end and the sleep           *)
(***************************************************************************)
\* whether the lowercased text of an error mentions a transient condition
TransientWords ==
    {"timeout", "connection", "network", "temporary", "unavailable", "retry",
     "429", "500", "502", "503", "504"}

LoweredMentions(lowered, words) == \E w \in words : Contains(lowered, w)

MentionsTransient(message) == LoweredMentions(Lower(message), TransientWords)

Event(e, a) == [ev |-> e, arg |-> a]

\* _supports_vision
vision_models ==
    {"gpt-4o", "gpt-4o-mini", "gpt-4-turbo", "gpt-4-vision-preview",
     "gpt-4.1-2025-04-14", "o3", "o3-mini", "o3-pro", "o4-mini", "o4-mini-high"}

SupportsVision(model_name) == Lower(model_name) \in vision_models

HasPrefix(s, prefix) == Len(s) >= Len(prefix) /\ SubSeq(s, 1, Len(prefix)) = prefix

\* os.path.splitext(path)[1]: from the last dot of the last component, unless
\* that dot leads the component
ExtFrom(base, dot) == IF dot <= 1 THEN "" ELSE SubSeq(base, dot, Len(base))
BaseExt(base) == ExtFrom(base, LastIndexOf(base, "."))
SplitExt(path) == BaseExt(RPartitionAfter(path, "/"))

IMAGE_MIME_TYPES ==
    [e \in {".jpg", ".jpeg", ".png", ".gif", ".webp"} |->
        CASE e = ".jpg" -> "image/jpeg"
          [] e = ".jpeg" -> "image/jpeg"
          [] e = ".png" -> "image/png"
          [] e = ".gif" -> "image/gif"
          [] e = ".webp" -> "image/webp"]

DottedLower(extension) ==
    Lower(IF HasPrefix(extension, ".") THEN extension ELSE "." \o extension)

MimeOrJpeg(e) == IF e \in DOMAIN IMAGE_MIME_TYPES THEN IMAGE_MIME_TYPES[e] ELSE "image/jpeg"

\* utils.file_types.get_image_mime_type
GetImageMimeType(extension) == MimeOrJpeg(DottedLower(extension))

\* base64.b64encode(f.read()).decode(): every image file of the model holds
\* the two bytes "hi"
FileBase64 == "aGk="

ImageUrlPart(url) == [type |-> "image_url", image_url |-> [url |-> url]]

\* _process_image: present holds the paths whose file exists; a missing file
\* gives None
ProcessImage(image_path, present) ==
    IF HasPrefix(image_path, "data:image/") THEN ImageUrlPart(image_path)
    ELSE IF image_path \notin present THEN NoneValue
    ELSE ImageUrlPart("data:" \o GetImageMimeType(Lower(SplitExt(image_path)))
                      \o ";base64," \o FileBase64)

ProcessedImages(images, present) ==
    [i \in 1..Len(images) |-> ProcessImage(images[i], present)]

IsImagePart(part) == part # NoneValue

TextPart(prompt) == [type |-> "text", text |-> prompt]

\* lines 395-408 without the test for vision support
UserContentKeepsImages(prompt, model_name, images, present) ==
    <<TextPart(prompt)>> \o SelectSeq(ProcessedImages(images, present), IsImagePart)

\* lines 395-408: the text, then the images a vision model is given
UserContent(prompt, model_name, images, present) ==
    <<TextPart(prompt)>> \o
        (IF Len(images) > 0 /\ SupportsVision(model_name)
         THEN SelectSeq(ProcessedImages(images, present), IsImagePart)
         ELSE <<>>)

\* lines 409-410: the images are dropped with a warning
ImagesIgnored(model_name, images) == Len(images) > 0 /\ ~SupportsVision(model_name)

\* lines 413-418: the content of the user message, a plain string or a list of parts
MessageContent(prompt, user_content) ==
    IF Len(user_content) = 1 THEN [form |-> "str", text |-> prompt]
    ELSE [form |-> "parts", parts |-> user_content]

UserMessage(prompt, model_name, images, present) ==
    [role |-> "user",
     content |-> MessageContent(prompt, UserContent(prompt, model_name, images, present))]

\* line 437-450: the endpoint for every request of the call
SelectProtocolChatOnly(resolved_model) == "chat"

SelectProtocol(resolved_model) ==
    IF resolved_model = RESPONSES_MODEL THEN "responses" ELSE "chat"

\* lines 382-450: validation, message assembly, protocol selection; an images
\* argument of None is the empty list
GenerateContent(prompt, model_name, temperature, images, present) ==
    /\ phase = "ready"
    /\ pc = "idle"
    /\ op' = "generate_content"
    /\ req' = [model_name |-> model_name, temperature |-> temperature,
               images |-> images,
               message |-> UserMessage(prompt, model_name, images, present)]
    /\ trace' = IF ValidateModelName(kind, model_name, allowed_models)
                    /\ ImagesIgnored(model_name, images)
                 THEN <<Event("warn", Len(images))>>
                 ELSE <<>>
    /\ attempt' = 0
    /\ last_exception' = NoneValue
    /\ is_retryable' = FALSE
    /\ response' = NoneValue
    /\ delay' = 0
    /\ IF ~ValidateModelName(kind, model_name, allowed_models)
       THEN /\ pc' = "raised"
            /\ outcome' = ModelNotAllowed(model_name)
            /\ protocol' = None
            /\ warnings' = warnings
       ELSE /\ pc' = "send"
            /\ outcome' = NoneValue
            /\ protocol' = SelectProtocol(model_name)
            /\ warnings' =
                  IF ValidateParameters(kind, model_name, temperature).warned
                  THEN warnings \cup {"Parameter validation limited"}
                  ELSE warnings
    /\ UNCHANGED <<locals, environ, callers, providerVars, client>>

\* self.client.chat.completions.create / self.client.responses.create is called
SendRequest ==
    /\ pc = "send"
    /\ client' = ClientProperty
    /\ pc' = "inflight"
    /\ trace' = Append(trace, Event("send", attempt + 1))
    /\ UNCHANGED <<locals, environ, callers, providerVars, warnings, op, req, protocol, attempt,
                   last_exception, is_retryable, response, delay, outcome>>

\* chat loop, line 504 with the retry on every error
ChatGivesUpWhenExhausted(e, n) == n = max_retries - 1

\* chat loop, line 504 without the test for the last attempt
ChatGivesUpIfNotRetryable(e, n) == ~IsRetryable(e)

\* chat loop, line 504 with the bound off by one
ChatGivesUpOneEarly(e, n) == n >= max_retries - 2 \/ ~IsRetryable(e)

\* chat loop, line 504: break on the last attempt or a non-retryable error
ChatGivesUp(e, n) == n = max_retries - 1 \/ ~IsRetryable(e)

\* responses loop, line 345 with the retry on every error
ResponsesGivesUpWhenExhausted(e, n) == n = responses_max_retries - 1

\* responses loop, line 345: sleep only if retryable and attempts remain
ResponsesGivesUp(e, n) == ~(ResponsesIsRetryable(e) /\ n < responses_max_retries - 1)

\* the loop in use leaves after exception e: break, then raise RuntimeError
GivesUp(e) ==
    IF protocol = "responses" THEN ResponsesGivesUp(e, attempt) ELSE ChatGivesUp(e, attempt)

Failure(e) ==
    IF protocol = "responses" THEN ResponsesFailure(req.model_name, e)
    ELSE ChatFailure(req.model_name, e)

\* is_retryable as the loop in use computes it
Classify(e) ==
    IF protocol = "responses" THEN ResponsesIsRetryable(e) ELSE IsRetryable(e)

\* the except block of the retry loop
HandleException(e) ==
    /\ last_exception' = e
    /\ is_retryable' = Classify(e)
    /\ trace' = Append(trace, Event("fail", IF MentionsTransient(e.message) THEN 1 ELSE 0))
    /\ IF GivesUp(e)
       THEN /\ pc' = "raised"
            /\ outcome' = Failure(e)
            /\ delay' = delay
       ELSE /\ pc' = "sleep"
            /\ outcome' = outcome
            /\ delay' = IF protocol = "responses"
                        THEN responses_retry_delays[attempt + 1]
                        ELSE retry_delays[attempt + 1]
    /\ UNCHANGED <<locals, environ, callers, providerVars, client, warnings, op, req, protocol, attempt>>

\* the request raises e
TransportRaises(e) ==
    /\ pc = "inflight"
    /\ response' = response
    /\ HandleException(e)

\* the exception raised between the reply and the return of the try block
ExtractError(resp) ==
    IF protocol = "responses" THEN ResponsesExtractError(resp) ELSE ChatExtractError(resp)

\* the request returns a response; reading it may raise inside the try block
TransportReturns(r) ==
    /\ pc = "inflight"
    /\ response' = r
    /\ IF ExtractError(r) # NoError
       THEN HandleException(ExtractError(r))
       ELSE /\ pc' = "returned"
            /\ outcome' = IF protocol = "responses"
                          THEN ResponsesModelResponse(req.model_name, kind, r)
                          ELSE ChatModelResponse(req.model_name, kind, r)
            /\ trace' = Append(trace, Event("ok", 0))
            /\ UNCHANGED <<locals, environ, callers, providerVars, client, warnings, op, req, protocol,
                           attempt, last_exception, is_retryable, delay>>

LoopBound == IF protocol = "responses" THEN responses_max_retries ELSE max_retries

\* time.sleep(delay) returns and the loop moves to the next attempt
SleepDone ==
    /\ pc = "sleep"
    /\ trace' = Append(trace, Event("sleep", delay))
    /\ attempt' = attempt + 1
    /\ IF attempt + 1 < LoopBound
       THEN pc' = "send" /\ outcome' = outcome
       ELSE pc' = "raised" /\ outcome' = Failure(last_exception)
    /\ UNCHANGED <<locals, environ, callers, providerVars, client, warnings, op, req, protocol,
                   last_exception, is_retryable, response, delay>>

\* the caller takes the result or the exception; the call's locals are gone
Finish ==
    /\ pc \in {"returned", "raised"}
    /\ op' = None
    /\ pc' = "idle"
    /\ req' = NoRequest
    /\ protocol' = None
    /\ attempt' = 0
    /\ last_exception' = NoneValue
    /\ is_retryable' = FALSE
    /\ response' = NoneValue
    /\ delay' = 0
    /\ outcome' = NoneValue
    /\ trace' = <<>>
    /\ locals' = NoLocals
    /\ UNCHANGED <<environ, callers, providerVars, client, warnings>>

(***************************************************************************)
(* The other provider methods, called directly                             *)
(***************************************************************************)
IsError(x) == x.type \in {"ValueError", "RuntimeError", "IndexError"}

\* get_capabilities that reads self.client on the way
CallGetCapabilitiesBuildsClient(model_name) ==
    /\ phase = "ready"
    /\ pc = "idle"
    /\ op' = "get_capabilities"
    /\ req' = [model_name |-> model_name, temperature |-> 0]
    /\ client' = ClientProperty
    /\ outcome' = GetCapabilities(kind, model_name)
    /\ pc' = IF IsError(GetCapabilities(kind, model_name)) THEN "raised" ELSE "returned"
    /\ UNCHANGED <<locals, environ, callers, providerVars, warnings, protocol, attempt,
                   last_exception, is_retryable, response, delay, trace>>

\* a caller calls get_capabilities(model_name)
CallGetCapabilities(model_name) ==
    /\ phase = "ready"
    /\ pc = "idle"
    /\ op' = "get_capabilities"
    /\ req' = [model_name |-> model_name, temperature |-> 0]
    /\ outcome' = GetCapabilities(kind, model_name)
    /\ pc' = IF IsError(GetCapabilities(kind, model_name)) THEN "raised" ELSE "returned"
    /\ UNCHANGED <<locals, environ, callers, providerVars, client, warnings, protocol, attempt,
                   last_exception, is_retryable, response, delay, trace>>

\* a caller calls validate_parameters(model_name, temperature)
CallValidateParameters(model_name, temperature) ==
    LET r == ValidateParameters(kind, model_name, temperature)
    IN  /\ phase = "ready"
        /\ pc = "idle"
        /\ op' = "validate_parameters"
        /\ req' = [model_name |-> model_name, temperature |-> temperature]
        /\ outcome' = r.raised
        /\ pc' = IF r.raised # NoError THEN "raised" ELSE "returned"
        /\ warnings' = IF r.warned THEN warnings \cup {"Parameter validation limited"}
                       ELSE warnings
        /\ UNCHANGED <<locals, environ, callers, providerVars, client, protocol, attempt,
                       last_exception, is_retryable, response, delay, trace>>

(***************************************************************************)
(* count_tokens.  What count_tokens_remote and tiktoken do is outside the  *)
(* provider: each either returns a count or raises.                        *)
(***************************************************************************)
TierRaises == [ok |-> FALSE, value |-> 0]
TierReturns(n) == [ok |-> TRUE, value |-> n]

\* character estimate rounded up
HeuristicTokensRoundedUp(text) == (Len(text) + 3) \div 4

\* line 569: len(text) // 4
HeuristicTokens(text) == Len(text) \div 4

\* the event a consulted tier leaves: its count, or -1 when it raised
TierEvent(name, r) == Event(name, IF r.ok THEN r.value ELSE 0 - 1)

\* count_tokens whose remote tier is not guarded by try/except
CountTokensRemoteUnguarded(text, has_remote, remote, tok) ==
    IF has_remote /\ ~remote.ok
    THEN [raised |-> TRUE, value |-> 0, tiers |-> <<TierEvent("remote", remote)>>]
    ELSE IF has_remote
    THEN [raised |-> FALSE, value |-> remote.value,
          tiers |-> <<TierEvent("remote", remote)>>]
    ELSE IF tok.ok
    THEN [raised |-> FALSE, value |-> tok.value, tiers |-> <<TierEvent("tokenizer", tok)>>]
    ELSE [raised |-> FALSE, value |-> HeuristicTokens(text),
          tiers |-> <<TierEvent("tokenizer", tok),
                      Event("heuristic", HeuristicTokens(text))>>]

\* the tiers before the character estimate, in the order they are consulted
TiersBeforeHeuristic(has_remote, remote, tok) ==
    (IF has_remote THEN <<TierEvent("remote", remote)>> ELSE <<>>)
    \o <<TierEvent("tokenizer", tok)>>

\* lines 538-569: the value returned and the tiers consulted
CountTokensOutcome(text, has_remote, remote, tok) ==
    IF has_remote /\ remote.ok
    THEN [raised |-> FALSE, value |-> remote.value,
          tiers |-> <<TierEvent("remote", remote)>>]
    ELSE IF tok.ok
    THEN [raised |-> FALSE, value |-> tok.value,
          tiers |-> TiersBeforeHeuristic(has_remote, remote, tok)]
    ELSE [raised |-> FALSE, value |-> HeuristicTokens(text),
          tiers |-> TiersBeforeHeuristic(has_remote, remote, tok)
                    \o <<Event("heuristic", HeuristicTokens(text))>>]

\* a caller calls count_tokens(text, model_name)
CountTokens(text, model_name, has_remote, remote, tok) ==
    /\ phase = "ready"
    /\ pc = "idle"
    /\ op' = "count_tokens"
    /\ req' = [model_name |-> model_name, text |-> text]
    /\ trace' = CountTokensOutcome(text, has_remote, remote, tok).tiers
    /\ outcome' =
          IF CountTokensOutcome(text, has_remote, remote, tok).raised
          THEN [type |-> "RuntimeError", message |-> "token counting failed",
                cause |-> NoneValue]
          ELSE [type |-> "int",
                value |-> CountTokensOutcome(text, has_remote, remote, tok).value]
    /\ pc' = IF CountTokensOutcome(text, has_remote, remote, tok).raised
             THEN "raised" ELSE "returned"
    /\ UNCHANGED <<locals, environ, callers, providerVars, client, warnings, protocol, attempt,
                   last_exception, is_retryable, response, delay>>

\* a caller calls validate_model_name(model_name)
CallValidateModelName(model_name) ==
    /\ phase = "ready"
    /\ pc = "idle"
    /\ op' = "validate_model_name"
    /\ req' = [model_name |-> model_name, temperature |-> 0]
    /\ outcome' = [type |-> "bool",
                   value |-> ValidateModelName(kind, model_name, allowed_models)]
    /\ pc' = "returned"
    /\ UNCHANGED <<locals, environ, callers, providerVars, client, warnings, protocol, attempt,
                   last_exception, is_retryable, response, delay, trace>>

\* the process environment changes: os.environ[name] = value, or del os.environ[name]
ChangeEnviron(name, value) ==
    /\ environ[name] # value
    /\ environ' = [environ EXCEPT ![name] = value]
    /\ UNCHANGED <<locals, callers, providerVars, client, warnings, callVars>>

\* a caller calls _is_localhost_url()
CallIsLocalhostUrl ==
    /\ phase = "ready"
    /\ pc = "idle"
    /\ op' = "_is_localhost_url"
    /\ outcome' = [type |-> "bool", value |-> IsLocalhostUrl(base_url)]
    /\ pc' = "returned"
    /\ UNCHANGED <<locals, environ, callers, providerVars, client, warnings, req, protocol, attempt,
                   last_exception, is_retryable, response, delay, trace>>


(***************************************************************************)
(* Inputs                                                                  *)
(***************************************************************************)
ModelNames == {"o3", "o4-mini", "O3", "gpt-4o", "o3-pro-2025-06-10"}

\* 0.7 (the default of generate_content), 1.0 and 2.5
Temperatures == {7, 10, 25}

\* longest error text made of status digits
MaxDigits == 3

StatusDigits == {"5", "0"}

RECURSIVE DigitTexts(_)
\* the non-empty texts of at most n status digits
DigitTexts(n) ==
    IF n = 0 THEN {}
    ELSE StatusDigits
         \cup DigitTexts(n - 1)
         \cup {t \o d : t \in DigitTexts(n - 1), d \in StatusDigits}

ErrorMessages ==
    {"Request timed out.", "Read Timeout", "Connection error.",
     "Service Unavailable", "Error code: 429 - rate limit", "HTTP 503",
     "Error code: 401 - Invalid API key", "Error code: 400 - bad request",
     "job 15004 rejected", "Model not found"}
    \cup DigitTexts(MaxDigits)

TransportErrors == {[type |-> "APIError", message |-> m] : m \in ErrorMessages}

FullUsage == [prompt_tokens |-> 12, completion_tokens |-> 30, total_tokens |-> 42]

ChatResponse(choices, usage) ==
    [choices |-> choices, usage |-> usage, model |-> "o3-2025-04-16",
     id |-> "chatcmpl-1", created |-> 1700000000]

\* a reply object whose attributes cannot be read: the body is fetched on first
\* access and the connection is gone
UnreadableReply ==
    [read_error |-> [type |-> "ReadError",
                     message |-> "Connection reset while reading the response"]]

ChatResponses ==
    {ChatResponse(<<[content |-> "Hello", finish_reason |-> "stop"]>>, FullUsage),
     ChatResponse(<<[content |-> "", finish_reason |-> "length"]>>, NoneValue),
     ChatResponse(<<[content |-> None, finish_reason |-> "tool_calls"]>>,
                  [prompt_tokens |-> 12]),
     ChatResponse(<<>>, FullUsage)}

ApiResponses ==
    {[output |-> [content |-> <<[type |-> "reasoning"],
                               [type |-> "output_text", text |-> "Hello"]>>],
      usage |-> FullUsage, model |-> "o3-pro-2025-06-10", id |-> "resp-1",
      created_at |-> 1700000000],
     [output |-> [text |-> "Hi"], input_tokens |-> 12, output_tokens |-> 30],
     [output |-> NoneValue, usage |-> NoneValue, id |-> "resp-2"],
     [id |-> "resp-3"],
     [output |-> [content |-> <<[type |-> "output_text"]>>], id |-> "resp-4"]}

ConstructInput(k, key, url, kw) ==
    [kind |-> k, api_key |-> key, base_url |-> url, timeouts |-> kw]

\* the constructions explored together with the provider's methods
CoreConstructInputs ==
    {ConstructInput(k, "sk-test", Absent, NoTimeoutKwargs) : k \in ProviderKinds}
    \cup {ConstructInput("custom", "", "https://api.example.com/v1", NoTimeoutKwargs),
          ConstructInput("custom", "sk-test", "http://localhost:11434/v1", NoTimeoutKwargs),
          ConstructInput("openai", "sk-test", "ftp://files.example.com", NoTimeoutKwargs),
          ConstructInput("custom", "sk-test", "http://api.example.com:65536/v1",
                         NoTimeoutKwargs)}

CoreEnvs ==
    {EmptyEnv,
     [EmptyEnv EXCEPT !["OPENAI_ALLOWED_MODELS"] = "o3"],
     [EmptyEnv EXCEPT !["CUSTOM_ALLOWED_MODELS"] = " O3-Pro-2025-06-10 ,llama3,,"]}

(***************************************************************************)
(* Specification                                                           *)
(***************************************************************************)
Init == InitWith(CoreEnvs)

ConstructProvider ==
    \E i \in CoreConstructInputs : Construct(i.kind, i.api_key, i.base_url, i.timeouts)

Prompt == "Describe this."

StartGenerate ==
    \E m \in ModelNames, t \in Temperatures : GenerateContent(Prompt, m, t, <<>>, {})

RequestFails == \E e \in TransportErrors : TransportRaises(e)

RequestReturns ==
    \E r \in (IF protocol = "responses" THEN ApiResponses ELSE ChatResponses) :
        TransportReturns(r)

QueryCapabilities == \E m \in ModelNames : CallGetCapabilities(m)

CheckParameters ==
    \E m \in ModelNames, t \in Temperatures : CallValidateParameters(m, t)

Texts == {"", "abc", "abcd", "hello world", "The quick brown fox jumps over the lazy dog."}

TierOutcomes == {TierRaises, TierReturns(0), TierReturns(3), TierReturns(12)}

\* only a subclass of the generic provider defines count_tokens_remote
HasRemoteChoices == IF kind = "custom" THEN BOOLEAN ELSE {FALSE}

CountSomeTokens ==
    \E text \in Texts, m \in {"o3", "no-such-model"}, has_remote \in HasRemoteChoices,
       remote \in TierOutcomes, tok \in TierOutcomes :
        CountTokens(text, m, has_remote, remote, tok)

Next ==
    \/ ConstructProvider
    \/ AccessClient
    \/ StartGenerate
    \/ SendRequest
    \/ RequestFails
    \/ RequestReturns
    \/ SleepDone
    \/ QueryCapabilities
    \/ CheckParameters
    \/ CountSomeTokens
    \/ Finish

Spec == Init /\ [][Next]_vars

(***************************************************************************)
(* Reading the history of a call                                           *)
(***************************************************************************)
InGenerate == op = "generate_content"

EventsOf(kinds) == {i \in 1..Len(trace) : trace[i].ev \in kinds}

NumSends == Cardinality(EventsOf({"send"}))
NumFails == Cardinality(EventsOf({"fail"}))
NumSleeps == Cardinality(EventsOf({"sleep"}))

\* every failure so far was an error whose text mentions a transient condition
AllFailsTransient == \A i \in EventsOf({"fail"}) : trace[i].arg = 1

RECURSIVE SumSleeps(_)
SumSleeps(t) ==
    IF t = <<>> THEN 0
    ELSE (IF Head(t).ev = "sleep" THEN Head(t).arg ELSE 0) + SumSleeps(Tail(t))

\* seconds slept so far in this call
TotalSlept == SumSleeps(trace)

\* the delays slept so far, in order
SleptDelays == [k \in 1..NumSleeps |->
                  trace[CHOOSE i \in EventsOf({"sleep"}) :
                            Cardinality({j \in EventsOf({"sleep"}) : j <= i}) = k].arg]

LastEvent == trace[Len(trace)]

\* the delay list of the specification
StatedDelays == <<1, 3, 5, 8>>

(***************************************************************************)
(* C1: within one generate_content call at most 4 requests are sent, one   *)
(* after another: a request is sent only at the start of the call or after *)
(* the previous request failed and the sleep after it ended, and the sleep *)
(* after the i-th failure lasts StatedDelays[i] seconds.                   *)
(***************************************************************************)
C1_BoundedSequentialRetry ==
    InGenerate =>
        /\ NumSends <= 4
        /\ \A i \in 1..Len(trace) :
              /\ trace[i].ev = "send" =>
                    /\ trace[i].arg = Cardinality({j \in EventsOf({"send"}) : j <= i})
                    /\ i = 1 \/ (i >= 3 /\ trace[i - 1].ev = "sleep" /\ trace[i - 2].ev = "fail")
              /\ trace[i].ev = "sleep" =>
                    /\ i >= 2 /\ trace[i - 1].ev = "fail"
                    /\ Cardinality({j \in EventsOf({"fail"}) : j < i}) \in 1..3
                    /\ trace[i].arg = StatedDelays[Cardinality({j \in EventsOf({"fail"}) : j < i})]
              /\ trace[i].ev \in {"fail", "ok"} => i >= 2 /\ trace[i - 1].ev = "send"
        /\ (pc = "inflight") <=> (trace # <<>> /\ LastEvent.ev = "send")
        /\ pc = "sleep" => LastEvent.ev = "fail" /\ delay = StatedDelays[NumFails]

C1_Witness_FourthRequestAfterThreeSleeps ==
    InGenerate /\ pc = "inflight" /\ NumSends = 4 /\ SleptDelays = <<1, 3, 5>>

(***************************************************************************)
(* C2: when the first k-1 requests fail with retryable errors and request  *)
(* k (k <= 4) succeeds, the call goes on through the failures and returns  *)
(* the ModelResponse built from the k-th reply, having slept the first k-1 *)
(* delays and nothing else.                                                *)
(***************************************************************************)
C2_ReturnsAfterRetryableFailures ==
    (InGenerate /\ trace # <<>> /\ AllFailsTransient) =>
        /\ NumFails < 4 => pc # "raised"
        /\ LastEvent.ev = "ok" =>
              /\ pc = "returned"
              /\ outcome.type = "ModelResponse"
              /\ outcome.model_name = req.model_name
              /\ protocol = "chat" =>
                    /\ outcome.content = response.choices[1].content
                    /\ outcome.metadata.id = response.id
              /\ protocol = "responses" => outcome.metadata.id = GetAttr(response, "id", "")
              /\ NumSends = NumFails + 1
              /\ SleptDelays = SubSeq(StatedDelays, 1, NumFails)
              /\ TotalSlept = (IF NumFails = 0 THEN 0 ELSE IF NumFails = 1 THEN 1
                               ELSE IF NumFails = 2 THEN 4 ELSE 9)

C2_Witness_SucceedsOnFourthAttempt ==
    InGenerate /\ pc = "returned" /\ NumSends = 4 /\ NumFails = 3 /\ TotalSlept = 9

(***************************************************************************)
(* C3: when the error of the first request mentions no retryable keyword,  *)
(* the call fails at once: one request, no sleep.                          *)
(***************************************************************************)
C3_NonRetryableFirstErrorFailsAtOnce ==
    (InGenerate /\ Len(trace) >= 2 /\ trace[2] = Event("fail", 0)) =>
        /\ pc = "raised"
        /\ outcome.type = "RuntimeError"
        /\ NumSends = 1
        /\ NumSleeps = 0
        /\ Len(trace) = 2

C3_Witness_FailsAfterOneRequest ==
    /\ InGenerate /\ pc = "raised" /\ NumSends = 1 /\ NumFails = 1
    /\ last_exception.message = "Error code: 401 - Invalid API key"

(***************************************************************************)
(* C4: an error is classified retryable exactly when its lowercased text   *)
(* contains one of timeout, connection, network, temporary, unavailable,   *)
(* retry, 429, 500, 502, 503, 504.                                         *)
(***************************************************************************)
C4_RetryableIffMentionsTerm ==
    (InGenerate /\ last_exception # NoneValue) =>
        (is_retryable <=> MentionsTransient(last_exception.message))

C4_Witness_SubstringOfLongerNumber ==
    /\ InGenerate /\ last_exception # NoneValue /\ is_retryable
    /\ last_exception.message = "job 15004 rejected"

(***************************************************************************)
(* C5 as stated: when all 4 requests fail with retryable errors the sleeps *)
(* total 17 seconds and the longest is 8 seconds.                          *)
(***************************************************************************)
C5_Stated_WorstCaseSleeps17 ==
    (InGenerate /\ pc = "raised" /\ NumFails = 4 /\ AllFailsTransient) =>
        /\ TotalSlept = 17
        /\ \E i \in EventsOf({"sleep"}) : trace[i].arg = 8

(***************************************************************************)
(* C5 amended: when all 4 requests fail with retryable errors the sleeps   *)
(* total 9 seconds (1+3+5), the longest is 5 seconds and none follows the  *)
(* 4th failure; no call sleeps more than that.                             *)
(***************************************************************************)
C5_WorstCaseSleeps9 ==
    /\ (InGenerate /\ pc = "raised" /\ NumFails = 4 /\ AllFailsTransient) =>
          /\ TotalSlept = 9
          /\ SleptDelays = <<1, 3, 5>>
          /\ LastEvent.ev = "fail"
    /\ InGenerate => TotalSlept <= 9 /\ \A i \in EventsOf({"sleep"}) : trace[i].arg <= 5

C5_Witness_AllFourAttemptsFail ==
    InGenerate /\ pc = "raised" /\ NumFails = 4 /\ AllFailsTransient

(***************************************************************************)
(* C6 as stated: whenever generate_content gives up after a request, it    *)
(* raises one RuntimeError whose cause is the exception of the most recent *)
(* attempt and whose message contains the number of attempts made, the     *)
(* provider's friendly name and the model name.                            *)
(***************************************************************************)
C6_Stated_FailureNamesAttemptsProviderModel ==
    (InGenerate /\ pc = "raised" /\ trace # <<>>) =>
        /\ outcome.type = "RuntimeError"
        /\ outcome.cause = last_exception
        /\ Contains(outcome.message, " after " \o IntToStr(NumSends) \o " attempts")
        /\ Contains(outcome.message, FRIENDLY_NAME)
        /\ Contains(outcome.message, req.model_name)

\* the official provider gives up after one request of a supported model
C6_Witness_GivesUpAfterOneAttempt ==
    /\ InGenerate /\ pc = "raised" /\ kind = "openai" /\ req.model_name = "o3"
    /\ NumSends = 1
    /\ outcome.cause = last_exception
    /\ Contains(outcome.message, " after 4 attempts")

(***************************************************************************)
(* C7: on the official provider, for a model name that is not in           *)
(* SUPPORTED_MODELS, get_capabilities and generate_content end at once     *)
(* with a ValueError, and generate_content leaves the client field as it   *)
(* was, sends no request and makes no attempt.                             *)
(***************************************************************************)
C7_UnsupportedModelRejectedOffline ==
    [][(/\ pc = "idle"
        /\ kind = "openai"
        /\ op' \in {"generate_content", "get_capabilities"}
        /\ req'.model_name \notin DOMAIN SUPPORTED_MODELS)
       => (/\ pc' = "raised"
           /\ outcome'.type = "ValueError"
           /\ client' = client
           /\ trace' = <<>>
           /\ attempt' = 0)]_vars

C7_Witness_UnknownModelRaises ==
    /\ InGenerate /\ kind = "openai" /\ req.model_name = "gpt-4o"
    /\ pc = "raised" /\ client = NoneValue /\ trace = <<>>

\* the temperature constraint of the model in the current call rejects its temperature
TemperatureRejected ==
    /\ GetCapabilities(kind, req.model_name).type = "ModelCapabilities"
    /\ ~Accepts(GetCapabilities(kind, req.model_name).temperature_constraint,
                req.temperature)

(***************************************************************************)
(* C8 as stated: on the official provider validate_parameters and          *)
(* generate_content with a temperature the model's constraint rejects end  *)
(* with a ValueError before any request; on a generic provider the         *)
(* rejection is a warning and the call goes on.                            *)
(***************************************************************************)
C8_Stated_OfficialProviderRejectsTemperature ==
    (op \in {"validate_parameters", "generate_content"} /\ TemperatureRejected) =>
        /\ kind = "openai" =>
              pc = "raised" /\ outcome.type = "ValueError" /\ trace = <<>>
        /\ kind = "custom" =>
              /\ "Parameter validation limited" \in warnings
              /\ op = "validate_parameters" => pc = "returned"

\* the official provider sends a request for o3 with temperature 0.7
C8_Witness_RequestSentWithRejectedTemperature ==
    /\ InGenerate /\ kind = "openai" /\ req.model_name = "o3" /\ req.temperature = 7
    /\ pc = "inflight"
    /\ "Parameter validation limited" \in warnings

(***************************************************************************)
(* C9 as stated: with an allow-list configured, generate_content for a     *)
(* model whose lowercased name is not in the list ends with a ValueError   *)
(* before any request, whether or not the model is in SUPPORTED_MODELS.    *)
(***************************************************************************)
C9_Stated_AllowListRejectsBeforeRequest ==
    (InGenerate /\ ~allowed_models.is_none
        /\ Lower(req.model_name) \notin allowed_models.models) =>
        pc = "raised" /\ outcome.type = "ValueError" /\ trace = <<>>

\* the official provider, restricted to o3, sends a request for o4-mini
C9_Witness_RequestSentForDisallowedModel ==
    /\ InGenerate /\ kind = "openai" /\ allowed_models.models = {"o3"}
    /\ req.model_name = "o4-mini" /\ pc = "inflight"

(***************************************************************************)
(* Construction on its own, over a wider range of base URLs                *)
(***************************************************************************)
\* base URLs whose scheme is neither http nor https
BadSchemeUrls ==
    {"ftp://files.example.com", "file:///etc/passwd", "api.example.com/v1",
     "localhost:8080", "//api.example.com/v1", "ws://api.example.com",
     "htps://api.example.com", "httpx://api.example.com:80"}

\* http(s) base URLs without a hostname
NoHostUrls ==
    {"http://", "https:///v1", "http://:8080/v1", "http:api.example.com",
     "https://?x=1", "http://user@:80"}

\* http(s) base URLs with a hostname and a port outside 1..65535
BadPortUrls ==
    {"http://api.example.com:0/v1", "http://api.example.com:65536/v1",
     "http://localhost:99999", "http://api.example.com:80a/v1",
     "http://api.example.com:-1/", "http://[::1]:0/v1", "https://10.0.0.1:70000"}

\* http(s) base URLs with a hostname and no port or a port in 1..65535
GoodUrls ==
    {"https://api.example.com/v1", "http://localhost:11434/v1",
     "http://api.example.com:1/v1", "http://api.example.com:65535",
     "http://api.example.com:/v1", "HTTPS://API.EXAMPLE.COM",
     "http://[::1]:8080/v1", "http://user:pw@host.example.com:8443/v1",
     "http://192.168.1.5:8000/v1", "https://api.openai.com/v1"}

ConstructUrls ==
    BadSchemeUrls \cup NoHostUrls \cup BadPortUrls \cup GoodUrls \cup {Absent, None, ""}

ConstructKwargs ==
    {NoTimeoutKwargs,
     <<5, AbsentTimeout, AbsentTimeout, AbsentTimeout>>,
     <<AbsentTimeout, 300, AbsentTimeout, 9>>}

ConnectEnv == [EmptyEnv EXCEPT !["CUSTOM_CONNECT_TIMEOUT"] = "7"]

AllTimeoutsEnv ==
    [EmptyEnv EXCEPT !["CUSTOM_CONNECT_TIMEOUT"] = "7", !["CUSTOM_READ_TIMEOUT"] = " 120 ",
                     !["CUSTOM_WRITE_TIMEOUT"] = "130", !["CUSTOM_POOL_TIMEOUT"] = "140"]

ConstructEnvs ==
    {EmptyEnv, ConnectEnv, AllTimeoutsEnv,
     [EmptyEnv EXCEPT !["CUSTOM_READ_TIMEOUT"] = "soon"]}

InitConstruct == InitWith(ConstructEnvs)

ConstructAny ==
    \E k \in ProviderKinds, key \in {"", "sk-test"}, url \in ConstructUrls,
       kw \in ConstructKwargs : Construct(k, key, url, kw)

NextConstruct ==
    \/ ConstructAny
    \/ AccessClient

SpecConstruct == InitConstruct /\ [][NextConstruct]_vars

(***************************************************************************)
(* C10: constructing a provider with a base URL whose scheme is not http   *)
(* or https, whose hostname is absent, or whose port is outside 1..65535   *)
(* fails with a ValueError, and the client field is still None then.       *)
(***************************************************************************)
C10_BadBaseUrlFailsConstruction ==
    (phase # "new" /\ base_url \in BadSchemeUrls \cup NoHostUrls \cup BadPortUrls) =>
        /\ phase = "failed"
        /\ init_error.type = "ValueError"
        /\ client = NoneValue
        /\ (environ \in {EmptyEnv, ConnectEnv, AllTimeoutsEnv}) =>
              init_error.message =
                 (IF base_url \in BadSchemeUrls THEN "Invalid URL scheme"
                  ELSE IF base_url \in NoHostUrls THEN "URL must include a hostname"
                  ELSE init_error.message)

C10_Witness_PortZeroFailsConstruction ==
    /\ phase = "failed" /\ base_url = "http://api.example.com:0/v1"
    /\ init_error.message = "Invalid port number"
    /\ client = NoneValue

(***************************************************************************)
(* The locality predicate on its own, over base URLs built from hosts      *)
(***************************************************************************)
UrlsOf(hosts) ==
    {"http://" \o h : h \in hosts} \cup {"https://" \o h \o ":8080/v1" : h \in hosts}

LocalNameHosts == {"localhost", "LOCALHOST", "127.0.0.1", "[::1]"}
DockerHosts == {"host.docker.internal", "gateway.docker.internal"}
PrivateIpHosts ==
    {"10.0.0.5", "172.16.0.1", "192.168.1.5", "127.0.0.2", "169.254.1.1",
     "[fd00::1]", "[fe80::1]", "[::ffff:a00:1]"}
\* hostnames that are no IP literal, not localhost and not under docker.internal
OtherHostnames ==
    {"api.example.com", "api.openai.com", "localhost.example.com", "mylocalhost",
     "docker.internal.example.com"}
PublicIpHosts == {"8.8.8.8", "172.32.0.1", "[2606:4700::1111]", "[::ffff:808:808]"}
MalformedHosts == {"[::1", "[abc]", "[127.0.0.1]"}

LocalityHosts ==
    LocalNameHosts \cup DockerHosts \cup PrivateIpHosts \cup OtherHostnames
    \cup PublicIpHosts \cup MalformedHosts

LocalityUrls == UrlsOf(LocalityHosts) \cup {Absent, None, ""}

InitLocality == InitWith({EmptyEnv})

ConstructForLocality ==
    \E k \in ProviderKinds, key \in {"", "sk-test"}, url \in LocalityUrls :
        Construct(k, key, url, NoTimeoutKwargs)

NextLocality ==
    \/ ConstructForLocality
    \/ CallIsLocalhostUrl
    \/ Finish

SpecLocality == InitLocality /\ [][NextLocality]_vars

\* _is_localhost_url() has been called and has ended
LocalityCalled == op = "_is_localhost_url" /\ pc # "idle"

(***************************************************************************)
(* C11 as stated: _is_localhost_url returns and never raises; it returns   *)
(* true for a base URL whose host is localhost, 127.0.0.1, ::1, a          *)
(* Docker-internal hostname or a private/loopback IP literal, and false    *)
(* for an absent base URL and for every other hostname that is no IP       *)
(* literal.                                                                *)
(***************************************************************************)
C11_Stated_LocalityByHost ==
    LocalityCalled =>
        /\ pc = "returned"
        /\ outcome.type = "bool"
        /\ base_url \in UrlsOf(LocalNameHosts \cup DockerHosts \cup PrivateIpHosts) =>
              outcome.value
        /\ (base_url \in {None, ""} \/ base_url \in UrlsOf(OtherHostnames)) =>
              ~outcome.value

\* a remote host whose name contains "docker.internal" is reported local
C11_Witness_RemoteHostReportedLocal ==
    /\ LocalityCalled /\ base_url = "http://docker.internal.example.com"
    /\ outcome = [type |-> "bool", value |-> TRUE]

\* no CUSTOM_*_TIMEOUT variable is set
EnvHasNoTimeouts == \A i \in 1..4 : environ[TimeoutEnvNames[i]] = None

(***************************************************************************)
(* C12 as stated: constructing a provider of either class with no base_url *)
(* argument, no timeout keyword and no CUSTOM_*_TIMEOUT variable gives     *)
(* connect 30 s and read/write/pool 600 s.                                 *)
(***************************************************************************)
C12_Stated_NoBaseUrlShortDefaults ==
    [][\A k \in ProviderKinds, key \in {"", "sk-test"} :
          (Construct(k, key, Absent, NoTimeoutKwargs) /\ EnvHasNoTimeouts)
          => timeout_config' = <<30, 600, 600, 600>>]_vars

\* the official provider built without arguments has the 45 s / 900 s policy
C12_Witness_OfficialProviderGetsCustomTier ==
    /\ phase = "ready" /\ kind = "openai" /\ environ = EmptyEnv
    /\ base_url = OPENAI_DEFAULT_BASE_URL
    /\ timeout_config = <<45, 900, 900, 900>>

\* the good base URLs that point at this machine or a private network
LocalGoodUrls ==
    {"http://localhost:11434/v1", "http://[::1]:8080/v1", "http://192.168.1.5:8000/v1"}

(***************************************************************************)
(* C13: with no overrides, a provider constructed with a local base URL    *)
(* has connect 60 s and read/write/pool 1800 s, one constructed with any   *)
(* other base URL has 45 s and 900 s; the policy depends on nothing but    *)
(* the value of _is_localhost_url for the base URL.                        *)
(***************************************************************************)
C13_TierFollowsLocality ==
    [][\A k \in ProviderKinds, key \in {"", "sk-test"}, url \in GoodUrls :
          (Construct(k, key, url, NoTimeoutKwargs) /\ EnvHasNoTimeouts)
          => /\ phase' = "ready"
             /\ url \in LocalGoodUrls => timeout_config' = <<60, 1800, 1800, 1800>>
             /\ url \notin LocalGoodUrls => timeout_config' = <<45, 900, 900, 900>>
             /\ (timeout_config' = <<60, 1800, 1800, 1800>>) <=> IsLocalhostUrl(base_url')]_vars

C13_Witness_LocalAndRemoteTiers ==
    /\ phase = "ready" /\ environ = EmptyEnv
    /\ base_url = "http://192.168.1.5:8000/v1"
    /\ timeout_config = <<60, 1800, 1800, 1800>>

\* the seconds a CUSTOM_*_TIMEOUT text stands for
StatedSeconds(text) ==
    IF text = "7" THEN 7 ELSE IF text = " 120 " THEN 120
    ELSE IF text = "130" THEN 130 ELSE 140

\* the tier default of timeout i for the base URLs of GoodUrls
StatedTierDefault(url, i) ==
    IF url \in LocalGoodUrls THEN <<60, 1800, 1800, 1800>>[i] ELSE <<45, 900, 900, 900>>[i]

TokensCounted == op = "count_tokens" /\ pc # "idle"

(***************************************************************************)
(* C15: count_tokens never raises.  The remote tier (when the provider has *)
(* one) is consulted first, then the tokenizer, then the character         *)
(* estimate; the first tier that returns supplies the result and no later  *)
(* tier is consulted; a tier that raises hands over to the next.           *)
(***************************************************************************)
C15_TiersInOrderNeverRaise ==
    [][\A text \in Texts, m \in {"o3", "no-such-model"}, has_remote \in BOOLEAN,
          remote \in TierOutcomes, tok \in TierOutcomes :
          CountTokens(text, m, has_remote, remote, tok)
          => /\ pc' = "returned"
             /\ outcome'.type = "int"
             /\ (has_remote /\ remote.ok) =>
                   /\ outcome'.value = remote.value
                   /\ Len(trace') = 1 /\ trace'[1].ev = "remote"
             /\ (has_remote /\ ~remote.ok) =>
                   /\ Len(trace') >= 2
                   /\ trace'[1] = Event("remote", 0 - 1)
                   /\ trace'[2].ev = "tokenizer"
             /\ ~has_remote => trace'[1].ev = "tokenizer"
             /\ (~(has_remote /\ remote.ok) /\ tok.ok) =>
                   /\ outcome'.value = tok.value
                   /\ trace'[Len(trace')].ev = "tokenizer"
             /\ (~(has_remote /\ remote.ok) /\ ~tok.ok) =>
                   /\ trace'[Len(trace')].ev = "heuristic"
                   /\ trace'[Len(trace') - 1] = Event("tokenizer", 0 - 1)
                   /\ outcome'.value = trace'[Len(trace')].arg
             /\ \A i \in 1..(Len(trace') - 1) : trace'[i].arg = 0 - 1]_vars

\* both earlier tiers raise and the character estimate answers
C15_Witness_FallsThroughBothTiers ==
    /\ TokensCounted /\ pc = "returned" /\ Len(trace) = 3
    /\ trace[1] = Event("remote", 0 - 1) /\ trace[2] = Event("tokenizer", 0 - 1)
    /\ trace[3].ev = "heuristic"

\* the character estimate supplied the result
EstimatedByLength == TokensCounted /\ trace # <<>> /\ LastEvent.ev = "heuristic"

(***************************************************************************)
(* C16 as stated: when neither the remote tier nor the tokenizer returns,  *)
(* count_tokens returns a positive integer equal to len(text) // 4.        *)
(***************************************************************************)
C16_Stated_EstimateIsPositive ==
    EstimatedByLength =>
        /\ pc = "returned"
        /\ outcome.type = "int"
        /\ outcome.value = Len(req.text) \div 4
        /\ outcome.value > 0

(***************************************************************************)
(* C16 amended: when neither the remote tier nor the tokenizer returns,    *)
(* count_tokens returns len(text) // 4, which is 0 for a text of fewer     *)
(* than 4 characters and positive otherwise.                               *)
(***************************************************************************)
C16_EstimateIsQuarterLength ==
    EstimatedByLength =>
        /\ pc = "returned"
        /\ outcome.type = "int"
        /\ 4 * outcome.value <= Len(req.text)
        /\ Len(req.text) < 4 * outcome.value + 4
        /\ (outcome.value > 0) <=> (Len(req.text) >= 4)

C16_Witness_ShortTextCountsZero ==
    /\ EstimatedByLength /\ req = [model_name |-> "no-such-model", text |-> "abc"]
    /\ outcome = [type |-> "int", value |-> 0]

(***************************************************************************)
(* Concurrent first access to the client                                   *)
(***************************************************************************)
InitClientRace == InitWith({EmptyEnv})

ConstructForRace ==
    \E k \in ProviderKinds, url \in {Absent, "http://localhost:11434/v1"} :
        Construct(k, "sk-test", url, NoTimeoutKwargs)

SomeCallerEnters == \E t \in Callers : CallerEnters(t)
SomeCallerTests == \E t \in Callers : CallerTests(t)
SomeCallerBuilds == \E t \in Callers : CallerBuilds(t)
SomeCallerAssigns == \E t \in Callers : CallerAssigns(t)
SomeCallerReturns == \E t \in Callers : CallerReturns(t)

NextClientRace ==
    \/ ConstructForRace
    \/ SomeCallerEnters
    \/ SomeCallerTests
    \/ SomeCallerBuilds
    \/ SomeCallerAssigns
    \/ SomeCallerReturns

SpecClientRace == InitClientRace /\ [][NextClientRace]_vars

\* the callers that have evaluated OpenAI(**client_kwargs)
Builders == {t \in Callers : callers[t].built # NoneValue}

(***************************************************************************)
(* C17 as stated: however the callers' first reads of provider.client      *)
(* interleave, the OpenAI client is constructed once, and every caller     *)
(* that has returned holds the same client object.                         *)
(***************************************************************************)
C17_Stated_ClientBuiltOnce ==
    /\ Cardinality(Builders) <= 1
    /\ \A t, u \in Callers :
          (callers[t].pc = "done" /\ callers[u].pc = "done") =>
              callers[t].got = callers[u].got

\* two callers have returned from their first read with different client objects
C17_Witness_TwoCallersTwoClients ==
    /\ callers[1].pc = "done" /\ callers[2].pc = "done"
    /\ callers[1].got.instance = 1 /\ callers[2].got.instance = 2

(***************************************************************************)
(* generate_content with images                                            *)
(***************************************************************************)
ImageModelNames == {"o3", "GPT-4o", "llama3.2", "o3-pro-2025-06-10"}

DataUrlImage == "data:image/png;base64,iVBORw0="

ImageFiles == {"/tmp/shot.PNG", "/tmp/scan"}

ImageLists ==
    {<<>>, <<DataUrlImage>>, <<"/tmp/shot.PNG", "/tmp/scan">>,
     <<"/tmp/scan", DataUrlImage>>}

ImageErrors ==
    {[type |-> "APIError", message |-> m] :
        m \in {"Connection error.", "Error code: 400 - bad request"}}

InitImages == InitWith({EmptyEnv})

ConstructForImages ==
    \E k \in ProviderKinds : Construct(k, "sk-test", Absent, NoTimeoutKwargs)

StartGenerateWithImages ==
    \E m \in ImageModelNames, imgs \in ImageLists, present \in SUBSET ImageFiles :
        GenerateContent(Prompt, m, 10, imgs, present)

ImageRequestFails == \E e \in ImageErrors : TransportRaises(e)

NextImages ==
    \/ ConstructForImages
    \/ StartGenerateWithImages
    \/ SendRequest
    \/ ImageRequestFails
    \/ RequestReturns
    \/ SleepDone
    \/ Finish

SpecImages == InitImages /\ [][NextImages]_vars

\* a call that was given images for a model outside the vision list and
\* passed validation
ImagesGivenToTextModel ==
    /\ InGenerate
    /\ Len(req.images) > 0
    /\ ~SupportsVision(req.model_name)
    /\ protocol # None

(***************************************************************************)
(* C18: when generate_content is given images for a model without vision   *)
(* support, the user message of the request is the prompt as a plain       *)
(* string with no image part, one warning counting the ignored images is   *)
(* recorded before the first request, and the call returns the response    *)
(* built from the reply, or raises the failure built from the last error,  *)
(* as a call without images does.                                          *)
(***************************************************************************)
C18_ImagesDroppedForTextModel ==
    ImagesGivenToTextModel =>
        /\ req.message = [role |-> "user", content |-> [form |-> "str", text |-> Prompt]]
        /\ EventsOf({"warn"}) = {1}
        /\ trace[1].arg = Len(req.images)
        /\ pc = "returned" =>
              outcome = IF protocol = "responses"
                        THEN ResponsesModelResponse(req.model_name, kind, response)
                        ELSE ChatModelResponse(req.model_name, kind, response)
        /\ pc = "raised" => outcome = Failure(last_exception)

\* a text-only model was given two images and the request went out, and returned
C18_Witness_TwoImagesIgnored ==
    /\ ImagesGivenToTextModel
    /\ req.model_name = "llama3.2" /\ Len(req.images) = 2
    /\ pc = "returned" /\ NumSends = 1
    /\ outcome.content = "Hello"

(***************************************************************************)
(* Endpoint selection                                                      *)
(***************************************************************************)
\* the endpoint the claim assigns to a model
StatedProtocol(model_name) ==
    IF model_name = "o3-pro-2025-06-10" THEN "responses" ELSE "chat"

(***************************************************************************)
(* C19: every request of a generate_content call for the model             *)
(* o3-pro-2025-06-10 goes to the responses endpoint, on the first attempt, *)
(* on every retry and when the call finally fails, and its result and its  *)
(* failure are those of the responses loop; every request of a call for    *)
(* any other model goes to the chat-completions endpoint, with the result  *)
(* and the failure of the chat loop.                                       *)
(***************************************************************************)
C19_EndpointFixedByModel ==
    (InGenerate /\ NumSends > 0) =>
        /\ protocol = StatedProtocol(req.model_name)
        /\ pc = "returned" =>
              ("endpoint" \in DOMAIN outcome.metadata
                  <=> StatedProtocol(req.model_name) = "responses")
        /\ pc = "raised" =>
              outcome = IF StatedProtocol(req.model_name) = "responses"
                        THEN ResponsesFailure(req.model_name, last_exception)
                        ELSE ChatFailure(req.model_name, last_exception)

\* the fourth request for o3-pro-2025-06-10 has failed on the responses endpoint
C19_Witness_ResponsesFailsAfterFourRequests ==
    /\ InGenerate /\ req.model_name = "o3-pro-2025-06-10"
    /\ protocol = "responses" /\ NumSends = 4 /\ pc = "raised"
    /\ Contains(outcome.message, "responses endpoint")

(***************************************************************************)
(* The content of the result                                               *)
(***************************************************************************)
(***************************************************************************)
(* C20 as stated: the content of every ModelResponse that generate_content *)
(* returns, from the chat-completions or the responses endpoint, is a      *)
(* string, possibly empty, and never None, whatever the reply holds.       *)
(***************************************************************************)
C20_Stated_ContentNeverNone ==
    (InGenerate /\ pc = "returned") => outcome.content # None

\* a chat reply whose message has no content was returned as a ModelResponse
C20_Witness_NoneContentReturned ==
    /\ InGenerate /\ pc = "returned" /\ protocol = "chat"
    /\ response.choices[1].content = None
    /\ outcome.type = "ModelResponse" /\ outcome.content = None

(***************************************************************************)
(* The usage of the result                                                 *)
(***************************************************************************)
UsageCounters == {"input_tokens", "output_tokens", "total_tokens"}

\* the name a counter has in the usage object of a reply
RawCounterName(counter) ==
    CASE counter = "input_tokens" -> "prompt_tokens"
      [] counter = "output_tokens" -> "completion_tokens"
      [] counter = "total_tokens" -> "total_tokens"

\* the reply carries no usage object, or carries one without the counter
CounterAbsent(resp, counter) ==
    \/ "usage" \notin DOMAIN resp
    \/ resp.usage = NoneValue
    \/ RawCounterName(counter) \notin DOMAIN resp.usage

(***************************************************************************)
(* C21 as stated: the usage of every ModelResponse generate_content        *)
(* returns holds the three counters input_tokens, output_tokens and        *)
(* total_tokens, and a counter the reply does not carry is 0.              *)
(***************************************************************************)
C21_Stated_UsageHoldsThreeCounters ==
    (InGenerate /\ pc = "returned") =>
        /\ DOMAIN outcome.usage = UsageCounters
        /\ \A c \in UsageCounters :
              (protocol = "chat" /\ CounterAbsent(response, c)) => outcome.usage[c] = 0

\* a chat reply without a usage object was returned with a usage that holds
\* no counter
C21_Witness_UsageWithoutCounters ==
    /\ InGenerate /\ pc = "returned" /\ protocol = "chat"
    /\ response.usage = NoneValue
    /\ outcome.usage = EmptyDict

(***************************************************************************)
(* Purity of get_capabilities                                              *)
(***************************************************************************)
\* what the provider keeps between calls
ProviderState == <<environ, providerVars, client, warnings, callers>>

FileSize ==
    [f \in {"test_small.py", "test_mid.py", "test_other.py", "test_large.py"} |->
        CASE f = "test_small.py" -> 120
          [] f = "test_mid.py" -> 800
          [] f = "test_other.py" -> 800
          [] f = "test_large.py" -> 2400]

ExampleFiles == DOMAIN FileSize

\* the share of the available tokens given to the examples, one third
TestExamplesBudgetThird(available_tokens) == available_tokens \div 3

\* the share of the available tokens given to the examples, 25%
TestExamplesBudget(available_tokens) == (available_tokens * 25) \div 100

\* the share of the context window prepare_prompt hands on, 75%
AvailableTokens(context_window) == (context_window * 75) \div 100

\* the position of f in a list sorted by size: after every file that is not larger
InsertAt(sorted, f) ==
    Cardinality({i \in 1..Len(sorted) : FileSize[sorted[i]] <= FileSize[f]}) + 1

InsertBySize(sorted, f) ==
    SubSeq(sorted, 1, InsertAt(sorted, f) - 1) \o <<f>>
        \o SubSeq(sorted, InsertAt(sorted, f), Len(sorted))

RECURSIVE SortFrom(_, _, _)
SortFrom(files, i, sorted) ==
    IF i > Len(files) THEN sorted
    ELSE SortFrom(files, i + 1, InsertBySize(sorted, files[i]))

\* the examples in the order they were supplied
KeepOrder(files) == files

\* the examples sorted by file size, smallest first, ties in the order supplied
SortBySize(files) == SortFrom(files, 1, <<>>)

\* the estimated tokens of a file
FileTokens(f) == FileSize[f] \div 4

RECURSIVE TokensOf(_)
TokensOf(files) ==
    IF files = <<>> THEN 0 ELSE FileTokens(Head(files)) + TokensOf(Tail(files))

\* _prepare_file_content_for_prompt: the files, in the order passed, that fit
\* into max_tokens together
FittingPrefix(files, max_tokens) ==
    SubSeq(files, 1,
           Cardinality({n \in 1..Len(files) : TokensOf(SubSeq(files, 1, n)) <= max_tokens}))

\* _process_test_examples: what it passes to _prepare_file_content_for_prompt,
\* and the files that end up in the prompt
ProcessTestExamples(test_examples, available_tokens) ==
    [type |-> "examples",
     available_tokens |-> available_tokens,
     max_tokens |-> TestExamplesBudget(available_tokens),
     files_passed |-> SortBySize(test_examples),
     included |-> FittingPrefix(SortBySize(test_examples),
                                TestExamplesBudget(available_tokens))]

\* a caller calls _process_test_examples(test_examples, None, available_tokens)
CallProcessTestExamples(test_examples, available_tokens) ==
    /\ pc = "idle"
    /\ op' = "_process_test_examples"
    /\ req' = [test_examples |-> test_examples, available_tokens |-> available_tokens]
    /\ outcome' = ProcessTestExamples(test_examples, available_tokens)
    /\ pc' = "returned"
    /\ UNCHANGED <<locals, environ, callers, providerVars, client, warnings, protocol, attempt,
                   last_exception, is_retryable, response, delay, trace>>

\* prepare_prompt of the test generation tool for a model with the context window
TestgenPreparePrompt(test_examples, context_window) ==
    /\ pc = "idle"
    /\ op' = "testgen.prepare_prompt"
    /\ req' = [test_examples |-> test_examples, context_window |-> context_window]
    /\ outcome' = ProcessTestExamples(test_examples, AvailableTokens(context_window))
    /\ pc' = "returned"
    /\ UNCHANGED <<locals, environ, callers, providerVars, client, warnings, protocol, attempt,
                   last_exception, is_retryable, response, delay, trace>>

MaxExamples == 3

ExampleLists ==
    {files \in UNION {[1..n -> ExampleFiles] : n \in 0..MaxExamples} :
        \A i, j \in 1..Len(files) : files[i] = files[j] => i = j}

AvailableChoices == {400, 2000, 50000, 100000}

ContextWindows == {1600, 32768, 200000}

InitTestgen == InitWith({EmptyEnv})

ProcessSomeExamples ==
    \E files \in ExampleLists, available \in AvailableChoices :
        CallProcessTestExamples(files, available)

PrepareSomeTestgenPrompt ==
    \E files \in ExampleLists, window \in ContextWindows :
        TestgenPreparePrompt(files, window)

NextTestgen ==
    \/ ProcessSomeExamples
    \/ PrepareSomeTestgenPrompt
    \/ Finish

SpecTestgen == InitTestgen /\ [][NextTestgen]_vars

ExamplesProcessed ==
    op \in {"_process_test_examples", "testgen.prepare_prompt"} /\ pc = "returned"

(***************************************************************************)
(* C23: _process_test_examples gives the examples a budget of exactly a    *)
(* quarter of the available tokens it is handed, 25,000 of 100,000, and    *)
(* prepare_prompt hands it three quarters of the model's context window,   *)
(* 150,000 of 200,000.                                                     *)
(***************************************************************************)
C23_QuarterOfThreeQuarters ==
    ExamplesProcessed =>
        /\ 4 * outcome.max_tokens = outcome.available_tokens
        /\ outcome.available_tokens = 100000 => outcome.max_tokens = 25000
        /\ op = "_process_test_examples" =>
              outcome.available_tokens = req.available_tokens
        /\ op = "testgen.prepare_prompt" =>
              /\ 4 * outcome.available_tokens = 3 * req.context_window
              /\ req.context_window = 200000 => outcome.available_tokens = 150000

\* both figures of the tests: 25,000 of 100,000 and 150,000 of 200,000
C23_Witness_BudgetOf200kWindow ==
    /\ op = "testgen.prepare_prompt" /\ pc = "returned"
    /\ req.context_window = 200000
    /\ outcome.available_tokens = 150000 /\ outcome.max_tokens = 37500

\* the files at the positions of a list
Members(files) == {files[i] : i \in 1..Len(files)}

(***************************************************************************)
(* C24: in whatever order the example files are supplied, they are passed  *)
(* on sorted by file size, smallest first, and every example left out of   *)
(* the budget is at least as large as every example included.              *)
(***************************************************************************)
C24_SmallestFirst ==
    ExamplesProcessed =>
        /\ Len(outcome.files_passed) = Len(req.test_examples)
        /\ Members(outcome.files_passed) = Members(req.test_examples)
        /\ \A i, j \in 1..Len(outcome.files_passed) :
              i < j => FileSize[outcome.files_passed[i]] <= FileSize[outcome.files_passed[j]]
        /\ TokensOf(outcome.included) <= outcome.max_tokens
        /\ \A f \in Members(outcome.included),
              g \in Members(outcome.files_passed) \ Members(outcome.included) :
              FileSize[f] <= FileSize[g]

\* the largest example was supplied first and is the one left out
C24_Witness_LargestLeftOut ==
    /\ op = "_process_test_examples" /\ pc = "returned"
    /\ req.test_examples = <<"test_large.py", "test_small.py", "test_mid.py">>
    /\ outcome.files_passed = <<"test_small.py", "test_mid.py", "test_large.py">>
    /\ outcome.included = <<"test_small.py", "test_mid.py">>

(***************************************************************************)
(* The provider's configuration while it is in use and the environment     *)
(* changes                                                                 *)
(***************************************************************************)
FrameModelNames == {"o3", "llama3"}

\* the values the environment takes for the names that change
FrameEnvValues ==
    [n \in {"OPENAI_ALLOWED_MODELS", "CUSTOM_ALLOWED_MODELS", "CUSTOM_CONNECT_TIMEOUT"} |->
        CASE n = "OPENAI_ALLOWED_MODELS" -> "o4-mini"
          [] n = "CUSTOM_ALLOWED_MODELS" -> "llama3"
          [] n = "CUSTOM_CONNECT_TIMEOUT" -> "7"]

InitFrame == InitWith({EmptyEnv})

ConstructForFrame ==
    \E k \in ProviderKinds, url \in {Absent, "http://localhost:11434/v1"} :
        Construct(k, "sk-test", url, NoTimeoutKwargs)

EnvironmentChanges ==
    \E n \in DOMAIN FrameEnvValues :
        \E v \in {None, FrameEnvValues[n]} : ChangeEnviron(n, v)

FrameGenerate == \E m \in FrameModelNames : GenerateContent(Prompt, m, 10, <<>>, {})

FrameCountTokens ==
    \E tok \in {TierRaises, TierReturns(3)} :
        CountTokens("hello world", "o3", FALSE, TierRaises, tok)

FrameCheckParameters == \E m \in FrameModelNames : CallValidateParameters(m, 7)

FrameQueryCapabilities == \E m \in FrameModelNames : CallGetCapabilities(m)

FrameValidateModelName == \E m \in FrameModelNames : CallValidateModelName(m)

FrameRequestReturns ==
    \E r \in {ChatResponse(<<[content |-> "Hello", finish_reason |-> "stop"]>>, FullUsage)} :
        TransportReturns(r)

NextFrame ==
    \/ ConstructForFrame
    \/ EnvironmentChanges
    \/ AccessClient
    \/ FrameGenerate
    \/ SendRequest
    \/ ImageRequestFails
    \/ FrameRequestReturns
    \/ SleepDone
    \/ FrameCountTokens
    \/ FrameCheckParameters
    \/ FrameQueryCapabilities
    \/ FrameValidateModelName
    \/ Finish

SpecFrame == InitFrame /\ [][NextFrame]_vars

(***************************************************************************)
(* C25: once a provider is constructed, no step of client access,          *)
(* generate_content, count_tokens, validate_parameters, get_capabilities   *)
(* or validate_model_name, and no change of the environment, alters its    *)
(* timeout_config or its allowed_models.                                   *)
(***************************************************************************)
C25_ConfigurationFrozen ==
    [][phase = "ready" =>
          /\ phase' = "ready"
          /\ timeout_config' = timeout_config
          /\ allowed_models' = allowed_models
          /\ client # NoneValue => client'.timeout = timeout_config]_vars

\* the environment now names a connect timeout and an allow-list; the provider
\* built before that keeps its own, and built its client with them
C25_Witness_EnvironmentChangedAfterConstruction ==
    /\ phase = "ready" /\ kind = "custom"
    /\ environ["CUSTOM_CONNECT_TIMEOUT"] = "7"
    /\ environ["CUSTOM_ALLOWED_MODELS"] = "llama3"
    /\ timeout_config = <<60, 1800, 1800, 1800>>
    /\ allowed_models = NoAllowList
    /\ client # NoneValue /\ client.timeout = timeout_config
    /\ op = "generate_content" /\ pc = "returned"

(***************************************************************************)
(* The attempt count of the failure message                                *)
(***************************************************************************)
\* the call has given up after at least one request
GaveUp == InGenerate /\ pc = "raised" /\ NumSends > 0

(***************************************************************************)
(* C26: the failure message of generate_content always says "after 4       *)
(* attempts", on the chat-completions and on the responses endpoint, also  *)
(* when the call gave up after one request because the first error was     *)
(* not retryable; the number of requests made is between 1 and 4.          *)
(***************************************************************************)
C26_MessageAlwaysSaysFour ==
    GaveUp =>
        /\ Contains(outcome.message, " after 4 attempts: " \o last_exception.message)
        /\ NumSends \in 1..4
        /\ \A n \in 1..3 : ~Contains(outcome.message, " after " \o IntToStr(n) \o " attempts")

\* one request was made on the responses endpoint and the message says 4
C26_Witness_OneRequestReportedAsFour ==
    /\ GaveUp /\ protocol = "responses" /\ NumSends = 1
    /\ outcome.message =
          "o3-pro responses endpoint error after 4 attempts: Error code: 401 - Invalid API key"

(***************************************************************************)
(* The two retry loops side by side                                        *)
(***************************************************************************)
\* an attempt of the call has just failed and the loop has decided what to do
AttemptFailed ==
    /\ InGenerate /\ last_exception # NoneValue
    /\ pc \in {"sleep", "raised"} /\ LastEvent.ev = "fail"

(***************************************************************************)
(* C27: after every failed attempt, on either endpoint, the loop in use    *)
(* does what the chat loop and what the responses loop prescribe for that  *)
(* error on that attempt: both give up, each raising its RuntimeError with *)
(* that error as the cause, or both sleep the same delay before the same   *)
(* next attempt; both classify the error alike and allow 4 attempts.       *)
(***************************************************************************)
C27_LoopsAgree ==
    AttemptFailed =>
        /\ max_retries = responses_max_retries
        /\ IsRetryable(last_exception) = ResponsesIsRetryable(last_exception)
        /\ is_retryable = IsRetryable(last_exception)
        /\ (pc = "raised") = ChatGivesUp(last_exception, attempt)
        /\ (pc = "raised") = ResponsesGivesUp(last_exception, attempt)
        /\ pc = "raised" =>
              /\ outcome.cause = last_exception
              /\ ChatFailure(req.model_name, last_exception).cause
                    = ResponsesFailure(req.model_name, last_exception).cause
        /\ pc = "sleep" =>
              /\ delay = retry_delays[attempt + 1]
              /\ delay = responses_retry_delays[attempt + 1]
        /\ NumSends = attempt + 1
        /\ NumSleeps = attempt

\* the responses loop sleeps 5 s after its third failure, as the chat loop does
C27_Witness_ResponsesSleepsFiveAfterThird ==
    /\ AttemptFailed /\ protocol = "responses"
    /\ pc = "sleep" /\ attempt = 2 /\ delay = 5 /\ NumSends = 3

(***************************************************************************)
(* Replies that cannot be read                                             *)
(***************************************************************************)
ExtractionModelNames == {"o3", "o3-pro-2025-06-10"}

InitExtraction == InitWith({EmptyEnv})

ConstructForExtraction ==
    \E k \in ProviderKinds : Construct(k, "sk-test", "http://localhost:11434/v1", NoTimeoutKwargs)

ExtractionGenerate ==
    \E m \in ExtractionModelNames : GenerateContent(Prompt, m, 10, <<>>, {})

ExtractionReplies ==
    (IF protocol = "responses" THEN ApiResponses ELSE ChatResponses) \cup {UnreadableReply}

ExtractionRequestReturns == \E r \in ExtractionReplies : TransportReturns(r)

NextExtraction ==
    \/ ConstructForExtraction
    \/ ExtractionGenerate
    \/ SendRequest
    \/ ImageRequestFails
    \/ ExtractionRequestReturns
    \/ SleepDone
    \/ Finish

SpecExtraction == InitExtraction /\ [][NextExtraction]_vars

\* the reply of the last request arrived and reading it raised
ExtractionFailed == AttemptFailed /\ last_exception.type # "APIError"

(***************************************************************************)
(* C28: an exception raised while the content or the usage of a received   *)
(* reply is read is handled as a failed request is: it becomes the last    *)
(* error; if its text mentions a retryable keyword and fewer than 4        *)
(* requests were made, the loop sleeps the delay of that attempt and sends *)
(* the request again; otherwise the call raises the RuntimeError that      *)
(* wraps it.                                                               *)
(***************************************************************************)
C28_ExtractionErrorsAreRetried ==
    ExtractionFailed =>
        /\ response # NoneValue
        /\ is_retryable = MentionsTransient(last_exception.message)
        /\ (pc = "sleep") = (MentionsTransient(last_exception.message) /\ NumSends < 4)
        /\ pc = "sleep" => delay = StatedDelays[NumSends]
        /\ pc = "raised" =>
              /\ outcome.type = "RuntimeError"
              /\ outcome.cause = last_exception
              /\ Contains(outcome.message, last_exception.message)
        /\ NumSends = attempt + 1

\* the third reply of a chat call could not be read, and the loop sleeps 5 s
\* before it sends the request a fourth time
C28_Witness_UnreadableReplyRetried ==
    /\ ExtractionFailed /\ protocol = "chat"
    /\ last_exception.type = "ReadError"
    /\ pc = "sleep" /\ NumSends = 3 /\ delay = 5

(***************************************************************************)
(* prepare_prompt of the precommit tool: the collection of the diffs.      *)
(* What git reports for a repository is given: whether compare_to is a     *)
(* ref of it, and the files of each section with the estimated tokens of   *)
(* their formatted diffs (shown is FALSE for a file whose diff command     *)
(* fails or prints nothing, and for an untracked file that cannot be read).*)
(***************************************************************************)
DEFAULT_CONTEXT_WINDOW == 200000

\* max_tokens of line 262
MaxDiffTokens == DEFAULT_CONTEXT_WINDOW - 50000

NoChangesText == "No pending changes found in any of the git repositories."
NoRepositoriesText == "No git repositories found in the specified path."

\* lines 317, 344, 364, 393 without the diff in the sum
FitsWithoutTheDiff(total_tokens, diff_tokens) == total_tokens <= MaxDiffTokens

\* lines 317, 344, 364, 393: total_tokens + diff_tokens <= max_tokens
Fits(total_tokens, diff_tokens) == total_tokens + diff_tokens <= MaxDiffTokens

\* the files of a section as candidates for all_diffs
Labelled(repo, files, label) ==
    [i \in 1..Len(files) |->
        [repo |-> repo.path, file |-> files[i].file, label |-> label,
         tokens |-> files[i].tokens, shown |-> files[i].shown]]

\* the per-file diffs prepare_prompt generates for a repository, in order
Candidates(request, repo) ==
    IF request.compare_to # None THEN Labelled(repo, repo.compare, "compare")
    ELSE (IF request.include_staged THEN Labelled(repo, repo.staged, "staged") ELSE <<>>)
         \o (IF request.include_unstaged
             THEN Labelled(repo, repo.unstaged, "unstaged")
                  \o Labelled(repo, repo.untracked, "untracked")
             ELSE <<>>)

\* len(changed_files)
ChangedFiles(request, repo) ==
    IF request.compare_to # None THEN Len(repo.compare)
    ELSE Cardinality({Candidates(request, repo)[i].file :
                         i \in 1..Len(Candidates(request, repo))})

\* lines 278-285: the summary of a repository in which compare_to is no ref
ErrorSummary(request, repo) ==
    [path |-> repo.path,
     error |-> "Invalid or unknown git ref '" \o request.compare_to \o "': ",
     changed_files |-> 0]

\* lines 405-414
RepoSummary(request, repo) ==
    [path |-> repo.path, changed_files |-> ChangedFiles(request, repo)]

\* what prepare_prompt returns with summaries in every case
PrecommitOutputAlwaysPrompt(all_diffs, repo_summaries) ==
    [type |-> "prompt", repo_summaries |-> repo_summaries, diffs |-> all_diffs]

\* lines 416-417 and 446-: the text returned, as its parts
PrecommitOutput(all_diffs, repo_summaries) ==
    IF all_diffs = <<>> THEN [type |-> "text", text |-> NoChangesText]
    ELSE [type |-> "prompt", repo_summaries |-> repo_summaries, diffs |-> all_diffs]

InPrecommit == op = "precommit.prepare_prompt"

\* prepare_prompt is called (lines 254-262); the request names no context files
PrecommitPreparePrompt(request, repositories) ==
    /\ pc = "idle"
    /\ op' = "precommit.prepare_prompt"
    /\ req' = [request |-> request, repositories |-> repositories]
    /\ trace' = <<>>
    /\ IF repositories = <<>>
       THEN /\ pc' = "returned"
            /\ outcome' = [type |-> "text", text |-> NoRepositoriesText]
            /\ locals' = locals
       ELSE /\ pc' = "repo"
            /\ outcome' = outcome
            /\ locals' = [all_diffs |-> <<>>, repo_summaries |-> <<>>, total_tokens |-> 0,
                          repo_index |-> 1, pending |-> <<>>]
    /\ UNCHANGED <<environ, callers, providerVars, client, warnings, protocol, attempt,
                   last_exception, is_retryable, response, delay>>

CurrentRepo == req.repositories[locals.repo_index]

\* lines 264-286: the loop takes the next repository and validates the ref
PrecommitEnterRepo ==
    /\ InPrecommit /\ pc = "repo"
    /\ locals.repo_index <= Len(req.repositories)
    /\ IF req.request.compare_to # None /\ ~CurrentRepo.valid_ref
       THEN /\ locals' = [locals EXCEPT
                            !.repo_summaries = Append(@, ErrorSummary(req.request, CurrentRepo)),
                            !.repo_index = @ + 1]
            /\ pc' = "repo"
            /\ trace' = Append(trace, Event("invalid_ref", locals.repo_index))
       ELSE /\ locals' = [locals EXCEPT !.pending = Candidates(req.request, CurrentRepo)]
            /\ pc' = "diffs"
            /\ trace' = trace
    /\ UNCHANGED <<environ, callers, providerVars, client, warnings, op, req, protocol,
                   attempt, last_exception, is_retryable, response, delay, outcome>>

\* lines 307-319 and their like: the next per-file diff is formatted and
\* appended if it fits
PrecommitTakeDiff ==
    /\ InPrecommit /\ pc = "diffs"
    /\ locals.pending # <<>>
    /\ IF ~Head(locals.pending).shown
       THEN /\ locals' = [locals EXCEPT !.pending = Tail(@)]
            /\ trace' = Append(trace, Event("nodiff", 0))
       ELSE IF Fits(locals.total_tokens, Head(locals.pending).tokens)
       THEN /\ locals' = [locals EXCEPT
                            !.all_diffs = Append(@, Head(locals.pending)),
                            !.total_tokens = @ + Head(locals.pending).tokens,
                            !.pending = Tail(@)]
            /\ trace' = Append(trace, Event("append", Head(locals.pending).tokens))
       ELSE /\ locals' = [locals EXCEPT !.pending = Tail(@)]
            /\ trace' = Append(trace, Event("skip", Head(locals.pending).tokens))
    /\ UNCHANGED <<environ, callers, providerVars, client, warnings, op, pc, req, protocol,
                   attempt, last_exception, is_retryable, response, delay, outcome>>

\* lines 401-414: the repository's summary, and on to the next repository
PrecommitLeaveRepo ==
    /\ InPrecommit /\ pc = "diffs"
    /\ locals.pending = <<>>
    /\ locals' = [locals EXCEPT
                    !.repo_summaries =
                        IF ChangedFiles(req.request, CurrentRepo) > 0
                        THEN Append(@, RepoSummary(req.request, CurrentRepo))
                        ELSE @,
                    !.repo_index = @ + 1]
    /\ pc' = "repo"
    /\ UNCHANGED <<environ, callers, providerVars, client, warnings, op, req, protocol,
                   attempt, last_exception, is_retryable, response, delay, outcome, trace>>

\* lines 416-: after the last repository
PrecommitReturn ==
    /\ InPrecommit /\ pc = "repo"
    /\ locals.repo_index > Len(req.repositories)
    /\ outcome' = PrecommitOutput(locals.all_diffs, locals.repo_summaries)
    /\ pc' = "returned"
    /\ UNCHANGED <<locals, environ, callers, providerVars, client, warnings, op, req,
                   protocol, attempt, last_exception, is_retryable, response, delay, trace>>

(***************************************************************************)
(* Repositories and requests of the precommit tool                         *)
(***************************************************************************)
ChangedFile(f, t) == [file |-> f, tokens |-> t, shown |-> TRUE]
SilentFile(f) == [file |-> f, tokens |-> 0, shown |-> FALSE]

AppRepo ==
    [path |-> "/work/app", valid_ref |-> TRUE,
     compare |-> <<ChangedFile("a.py", 100000), ChangedFile("b.py", 60000),
                   ChangedFile("c.py", 50000)>>,
     staged |-> <<ChangedFile("a.py", 100000), ChangedFile("b.py", 60000)>>,
     unstaged |-> <<ChangedFile("a.py", 40000)>>,
     untracked |-> <<SilentFile("core.bin")>>]

LibRepo ==
    [path |-> "/work/lib", valid_ref |-> FALSE,
     compare |-> <<>>,
     staged |-> <<ChangedFile("x.py", 10001)>>,
     unstaged |-> <<>>,
     untracked |-> <<ChangedFile("notes.txt", 1)>>]

DocsRepo ==
    [path |-> "/work/docs", valid_ref |-> FALSE,
     compare |-> <<>>, staged |-> <<>>, unstaged |-> <<>>, untracked |-> <<>>]

ToolsRepo ==
    [path |-> "/work/tools", valid_ref |-> TRUE,
     compare |-> <<ChangedFile("t.py", 50001), ChangedFile("u.py", 50000)>>,
     staged |-> <<SilentFile("t.py")>>,
     unstaged |-> <<ChangedFile("u.py", 10000)>>,
     untracked |-> <<>>]

Repositories == {AppRepo, LibRepo, DocsRepo, ToolsRepo}

MaxRepos == 2

RepositoryLists ==
    {repos \in UNION {[1..n -> Repositories] : n \in 0..MaxRepos} :
        \A i, j \in 1..Len(repos) : repos[i] = repos[j] => i = j}

PrecommitRequests ==
    {[compare_to |-> "main", include_staged |-> TRUE, include_unstaged |-> TRUE]}
    \cup {[compare_to |-> None, include_staged |-> s, include_unstaged |-> u] :
             s \in BOOLEAN, u \in BOOLEAN}

InitPrecommit == InitWith({EmptyEnv})

StartPrecommit ==
    \E request \in PrecommitRequests, repos \in RepositoryLists :
        PrecommitPreparePrompt(request, repos)

NextPrecommit ==
    \/ StartPrecommit
    \/ PrecommitEnterRepo
    \/ PrecommitTakeDiff
    \/ PrecommitLeaveRepo
    \/ PrecommitReturn
    \/ Finish

SpecPrecommit == InitPrecommit /\ [][NextPrecommit]_vars

\* prepare_prompt is past line 262
Collecting == InPrecommit /\ locals # NoLocals

RECURSIVE SumTokens(_)
SumTokens(diffs) ==
    IF diffs = <<>> THEN 0 ELSE Head(diffs).tokens + SumTokens(Tail(diffs))

\* the tokens appended before the i-th event of the call
RECURSIVE AppendedBefore(_)
AppendedBefore(i) ==
    IF i <= 1 THEN 0
    ELSE AppendedBefore(i - 1)
         + (IF trace[i - 1].ev = "append" THEN trace[i - 1].arg ELSE 0)

(***************************************************************************)
(* C29: while prepare_prompt collects diffs, total_tokens is the sum of    *)
(* the estimated tokens of the diffs in all_diffs and is at most 150,000;  *)
(* each diff was appended if and only if the total with it stayed within   *)
(* 150,000, whatever was skipped before it, in the same repository or an   *)
(* earlier one.                                                            *)
(***************************************************************************)
C29_TotalIsSumWithinLimit ==
    Collecting =>
        /\ locals.total_tokens = SumTokens(locals.all_diffs)
        /\ locals.total_tokens <= 150000
        /\ Len(locals.all_diffs) = Cardinality(EventsOf({"append"}))
        /\ \A i \in EventsOf({"append", "skip"}) :
              (trace[i].ev = "append") <=> (AppendedBefore(i) + trace[i].arg <= 150000)

\* a diff of the first repository was skipped for size, and a smaller diff of
\* the second repository was appended after it
C29_Witness_AppendAfterSkipInLaterRepository ==
    /\ Collecting /\ locals.repo_index = 2 /\ locals.total_tokens = 140001
    /\ \E i \in EventsOf({"skip"}) : \E j \in EventsOf({"append"}) : i < j
    /\ locals.all_diffs[Len(locals.all_diffs)].repo = "/work/lib"

\* the positions of the summaries of a repository
SummariesOf(path) ==
    {k \in 1..Len(locals.repo_summaries) : locals.repo_summaries[k].path = path}

\* the repositories the loop has dealt with
Visited == {i \in 1..Len(req.repositories) : i < locals.repo_index}

(***************************************************************************)
(* C30: when compare_to is given, every repository in which it is no ref   *)
(* has, once the loop is past it, one summary holding the error and no     *)
(* diff in all_diffs, and the loop goes on until every repository was      *)
(* visited; if the ref is invalid in every repository, prepare_prompt      *)
(* returns the text "No pending changes found in any of the git            *)
(* repositories." and nothing else, the error summaries being dropped.     *)
(***************************************************************************)
C30_InvalidRefIsSkippedAndSilent ==
    (Collecting /\ req.request.compare_to # None) =>
        /\ \A i \in Visited :
              ~req.repositories[i].valid_ref =>
                  /\ Cardinality(SummariesOf(req.repositories[i].path)) = 1
                  /\ \A k \in SummariesOf(req.repositories[i].path) :
                        "error" \in DOMAIN locals.repo_summaries[k]
                  /\ \A d \in 1..Len(locals.all_diffs) :
                        locals.all_diffs[d].repo # req.repositories[i].path
        /\ pc = "returned" => Visited = 1..Len(req.repositories)
        /\ (pc = "returned" /\ \A i \in 1..Len(req.repositories) :
                                    ~req.repositories[i].valid_ref) =>
              /\ outcome = [type |-> "text", text |-> NoChangesText]
              /\ Len(locals.repo_summaries) = Len(req.repositories)

\* compare_to is a ref of neither repository: two error summaries were
\* recorded and the text returned mentions none
C30_Witness_EveryRefInvalid ==
    /\ Collecting /\ pc = "returned" /\ req.request.compare_to = "main"
    /\ Len(req.repositories) = 2
    /\ \A i \in 1..2 : ~req.repositories[i].valid_ref
    /\ Len(locals.repo_summaries) = 2
    /\ outcome.text = NoChangesText

====
